---- MODULE Spec2Model ----
(***************************************************************************)
(* A model of the certificate / log filtering core of the Vault PKI MCP    *)
(* server: the hierarchy builder and the simplified certificate builder    *)
(* (bounded fan-out against Vault), the compound expression evaluator, the *)
(* pattern matcher's compound-expression stage and the paginated log       *)
(* filter.                                                                 *)
(***************************************************************************)
EXTENDS Naturals, Integers, Sequences, FiniteSets, TLC

VARIABLES
    \* ---- HierarchyBuilder / SimplifiedCertificateBuilder ----
    vault,              \* what the Vault backend may answer in this run
    builder,            \* "hierarchy" (build_hierarchy) or "simplified" (build_simplified_list)
    hpc,                \* position of the build call
    serial_numbers,     \* the listed serials
    ctask,              \* state of each fetch_single_certificate task
    cresp,              \* what read_certificate answered for each serial
    cresults,           \* each certificate task's return value (<<>> is None)
    cert_warnings,      \* the warnings list local to the certificate fan-out
    completion_order,   \* history: the certificate tasks in the order in which they
                        \* returned, kept for listings of at most MaxSerials serials
    semaphore_cert,     \* value of the certificate semaphore
    issuer_ids,         \* the listed issuer ids
    itask,              \* state of each fetch_single_issuer task
    iresp,              \* what read_issuer answered for each issuer id
    iresults,           \* each issuer task's return value (<<>> is None)
    issuer_warnings,    \* the warnings list local to the issuer fan-out
    semaphore_issuer,   \* value of the issuer semaphore
    warnings,           \* the build call's warnings list
    certificates,       \* the build call's certificates list
    issuers,            \* the build call's issuer map, in insertion order
    calls,              \* how many backend calls of each kind were issued
    list_outcome,       \* what list_certificates / list_issuers answered
    ret,                \* what the build call returned or raised
    \* ---- CompoundExpressionParser / PatternMatcher ----
    expression,         \* the compound expression of the call
    message,            \* the log message of the call
    matches,            \* what matches_compound_expression returned (<<>>: not called)
    evaluated,          \* what parse_and_evaluate returned (<<>>: not called)
    \* ---- LogFilter.filter_logs ----
    criteria,           \* the FilterCriteria of the call
    fpc,                \* position of the call: "streams", "loop", "done"
    target_streams,     \* the streams the call queries
    iteration,          \* the loop variable of the pagination loop
    next_token,         \* the pagination token (<<>> is None)
    events_collected,   \* events appended to all_events, len(all_events)
    events_scanned,     \* events received from the backend
    api_calls_made,     \* backend calls that returned a response
    backend_calls,      \* filter_log_events calls issued
    raw_events_received, \* backend side: raw events in all responses sent so far
    responses_received, \* backend side: filter_log_events calls answered with a response
    group_streams,      \* backend side: the log group's streams, latest event first, as of the describe call
    describe_outcome,   \* how describe_log_streams ended: "none" (not called), "raised", "returned"
    errors,             \* the call's errors list
    fwarnings,          \* the call's warnings list
    response,           \* the latest response of filter_log_events (<<>>: none yet)
    fret,               \* what filter_logs returned (<<>>: still running)
    \* ---- PatternMatcher.process_log_event and the MCP tools ----
    event_data,         \* the raw event of the call
    match_criteria,     \* the FilterCriteria of the call
    process_result,     \* what process_log_event returned or raised (<<>>: not called)
    matched,            \* what _matches_criteria_fast returned or raised (<<>>: not called)
    tool_response,      \* what the MCP tool answered (<<>>: no answer yet)
    criteria_args,      \* the arguments of a FilterCriteria(...) call (<<>>: no call)
    constructed         \* how that call ended (<<>>: not yet)

hvars == <<vault, builder, hpc, serial_numbers, ctask, cresp, cresults, cert_warnings, completion_order,
           semaphore_cert, issuer_ids, itask, iresp, iresults, issuer_warnings,
           semaphore_issuer, warnings, certificates, issuers, calls, list_outcome, ret>>

evars == <<expression, message, matches, evaluated>>

fvars == <<criteria, fpc, target_streams, iteration, next_token, events_collected,
           events_scanned, api_calls_made, backend_calls, describe_outcome, errors, fwarnings,
           response, fret, raw_events_received, responses_received, group_streams>>

mvars == <<event_data, match_criteria, process_result, matched, tool_response,
           criteria_args, constructed>>

(***************************************************************************)
(* Bounds of the model.                                                    *)
(***************************************************************************)
MaxExpiryDays == 3
MaxChainIssuers == 2
MaxGroupStreams == 1
LargeGroupStreams == 11
MaxSerials == 2
MaxEvents == 2
MaxOrganizeCertificates == 2
MaxOrganizeIssuers == 3
MaxPageEvents == 3
MaxIssuers == 1
GateSerials == 11
GateIssuers == 6

(***************************************************************************)
(* Program constants.                                                      *)
(***************************************************************************)
CertSemaphore == 10
IssuerSemaphore == 5
max_iterations == 100

(***************************************************************************)
(* Generic helpers: Python lists, dicts (insertion ordered) and Optional.  *)
(***************************************************************************)
None == <<>>
Some(x) == <<x>>

RECURSIVE Flatten(_)
Flatten(ss) == IF ss = <<>> THEN <<>> ELSE Head(ss) \o Flatten(Tail(ss))

\* The keys of a dict filled by d[k] = ... for k in keys: first insertion order.
DictKeys(keys) ==
    LET F[i \in 0..Len(keys)] ==
            IF i = 0 THEN <<>>
            ELSE IF \E j \in 1..(i - 1) : keys[j] = keys[i]
                 THEN F[i - 1]
                 ELSE Append(F[i - 1], keys[i])
    IN F[Len(keys)]

SeqToSet(s) == {s[i] : i \in 1..Len(s)}


(***************************************************************************)
(* The Vault backend's answers.                                            *)
(***************************************************************************)
\* list_certificates / list_issuers: the keys, VaultPermissionError or
\* VaultConnectionError (vault_client.py wraps every other failure into it).
ListOutcomes == {"ok", "perm", "conn"}

\* A parsed PEM body: what x509 reads off it.  Times are relative to now (0).
Pem(subject, issuer, nb, na) ==
    [parses |-> TRUE, subject_cn |-> subject, issuer_cn |-> issuer,
     not_before |-> nb, not_after |-> na]
BadPem == [parses |-> FALSE, subject_cn |-> "", issuer_cn |-> "",
           not_before |-> 0, not_after |-> 0]

\* read_certificate: kind "data" carries the response dict.  certificate is
\* <<>> when the field is missing or empty; revocation_time is "absent",
\* "zero" or "positive"; issuer_id is <<>> (absent) or <<id>>.
CertData(pem, rev, iid) ==
    [kind |-> "data", certificate |-> pem, revocation_time |-> rev, issuer_id |-> iid]
CertFailure(k) ==
    [kind |-> k, certificate |-> None, revocation_time |-> "absent", issuer_id |-> None]

SmallCertResponses ==
    { CertFailure("perm"), CertFailure("conn"),
      CertData(None, "absent", None),
      CertData(Some(BadPem), "absent", None),
      CertData(Some(Pem("leaf", "Root CA", -2, 1)), "absent", Some("1")),
      CertData(Some(Pem("old", "Int CA", -2, -1)), "positive", None) }

GateCertResponses ==
    { CertData(Some(Pem("leaf", "Root CA", -2, 1)), "absent", Some("1")) }

\* read_issuer: certificate is <<>> when missing or empty; ca_chain is the
\* list of the chain's PEM bodies, here the subject CN each parses to.
IssuerData(pem, chain) == [kind |-> "data", certificate |-> pem, ca_chain |-> chain]
IssuerFailure(k) == [kind |-> k, certificate |-> None, ca_chain |-> <<>>]

SmallIssuerResponses ==
    { IssuerFailure("perm"), IssuerFailure("conn"),
      IssuerData(None, <<>>),
      IssuerData(Some(BadPem), <<"Root CA">>),
      IssuerData(Some(Pem("Root CA", "Root CA", -2, 1)), <<"Root CA">>),
      IssuerData(Some(Pem("Int CA", "Root CA", -2, 1)), <<"Int CA", "Root CA">>),
      IssuerData(Some(Pem("Root CA", "Root CA", -2, 1)), <<>>) }

GateIssuerResponses ==
    { IssuerData(Some(Pem("Root CA", "Root CA", -2, 1)), <<"Root CA">>) }

\* read_issuer_config: the default issuer id, or a failure.
ConfigResponses == { [ok |-> TRUE, default |-> Some("1")],
                     [ok |-> TRUE, default |-> None],
                     [ok |-> FALSE, default |-> None] }

SmallVault ==
    [n_certs |-> 0..MaxSerials, cert_responses |-> SmallCertResponses,
     n_issuers |-> 0..MaxIssuers, issuer_responses |-> SmallIssuerResponses,
     list_outcomes |-> ListOutcomes]

GateVault ==
    [n_certs |-> {GateSerials}, cert_responses |-> GateCertResponses,
     n_issuers |-> {GateIssuers}, issuer_responses |-> GateIssuerResponses,
     list_outcomes |-> {"ok"}]

(***************************************************************************)
(* models/certificate.py: the pydantic models.  A constructor is an        *)
(* operator that returns [raised, value]; raised means ValidationError.    *)
(***************************************************************************)
Raised == [raised |-> TRUE, value |-> None]
Returned(v) == [raised |-> FALSE, value |-> Some(v)]

\* TRUE iff the validator raises: the serial is not colon-separated hex.
\* Listed serials are; "N/A" and the empty string are not.
validate_serial_format(v) == v \in {"N/A", ""}

\* TRUE iff the validator raises.  not_before is declared before not_after,
\* so it is in info.data when not_after is validated.
validate_date_order(v, not_before) == v <= not_before

Certificate(serial_number, subject_cn, issuer_cn, issuer_id, not_before, not_after, is_expired, is_revoked) ==
    IF validate_serial_format(serial_number) \/ validate_date_order(not_after, not_before)
       \/ subject_cn = "" \/ issuer_cn = ""
    THEN Raised
    ELSE Returned([serial_number |-> serial_number, subject_cn |-> subject_cn,
                   issuer_cn |-> issuer_cn, issuer_id |-> issuer_id,
                   not_before |-> not_before, not_after |-> not_after,
                   is_expired |-> is_expired, is_revoked |-> is_revoked])

\* TRUE iff the validator raises.
validate_ca_chain_not_empty(v) == v = <<>>

Issuer(issuer_id, issuer_cn, issuer_type, ca_chain) ==
    IF validate_ca_chain_not_empty(ca_chain) \/ issuer_cn = ""
       \/ issuer_type \notin {"root", "intermediate"}
    THEN Raised
    ELSE Returned([issuer_id |-> issuer_id, issuer_cn |-> issuer_cn,
                   issuer_type |-> issuer_type, is_root |-> issuer_type = "root",
                   ca_chain |-> ca_chain])

Warning(type, kind, id, text, count) ==
    [type |-> type, resource |-> [kind |-> kind, id |-> id],
     message |-> [text |-> text, count |-> count]]

\* The fields pydantic has validated before root_issuers, the model's first
\* field: none.
FieldsBeforeRootIssuers == [f \in {} |-> <<>>]

\* The validator as it would act were warnings validated before
\* root_issuers.
validate_not_empty_warnings_first(v, info_data) == v = <<>>

\* TRUE iff the validator raises.  info_data maps the names of the fields
\* validated so far to their values.
validate_not_empty_without_warnings(v, info_data) ==
    /\ v = <<>>
    /\ "warnings" \in DOMAIN info_data
    /\ info_data["warnings"] = <<>>

CertificateHierarchy(root_issuers, warns, metadata) ==
    IF validate_not_empty_without_warnings(root_issuers, FieldsBeforeRootIssuers)
    THEN Raised
    ELSE Returned([root_issuers |-> root_issuers, warnings |-> warns,
                   metadata |-> metadata])

(***************************************************************************)
(* services/certificate_parser.py                                          *)
(***************************************************************************)
CnOrUnknown(cn) == IF cn = "" THEN "Unknown" ELSE cn

\* revocation_time as parse_pem receives it: None only when Vault sent none.
RevocationIsNotNone(rev) == rev # "absent"

\* raised means CertificateParseError.
parse_pem(pem, serial_number, issuer_id, rev) ==
    IF ~pem.parses THEN Raised
    ELSE Certificate(serial_number, CnOrUnknown(pem.subject_cn),
                     CnOrUnknown(pem.issuer_cn), issuer_id,
                     pem.not_before, pem.not_after,
                     0 > pem.not_after, RevocationIsNotNone(rev))

\* raised means the ValidationError of the degraded Certificate, which
\* parse_pem_safe does not catch.
parse_pem_safe(pem, serial_number, issuer_id, rev) ==
    LET parsed == parse_pem(pem, serial_number, issuer_id, rev) IN
    IF ~parsed.raised THEN parsed
    ELSE Certificate(IF serial_number = "" THEN "N/A" ELSE serial_number,
                     "Unknown", "Unknown", issuer_id, 0, 0, TRUE,
                     RevocationIsNotNone(rev))

is_self_signed(pem) == pem.parses /\ pem.subject_cn = pem.issuer_cn

(***************************************************************************)
(* One fetch task's handling of the backend's answer: [result, warns].     *)
(***************************************************************************)
TaskNone(w) == [result |-> None, warns |-> <<w>>]
TaskValue(v) == [result |-> Some(v), warns |-> <<>>]

\* The task without its VaultPermissionError handler: the permission error
\* falls to the generic handler.
fetch_single_certificate_untyped(serial, r) ==
    IF r.kind # "data"
    THEN TaskNone(Warning("parse_error", "cert", serial, "error reading", 0))
    ELSE IF r.certificate = None
    THEN TaskNone(Warning("parse_error", "cert", serial, "pem missing", 0))
    ELSE LET cert == parse_pem_safe(r.certificate[1], serial, r.issuer_id,
                                    r.revocation_time)
         IN IF cert.raised
            THEN TaskNone(Warning("parse_error", "cert", serial, "error reading", 0))
            ELSE TaskValue(cert.value[1])

\* HierarchyBuilder._fetch_certificates_concurrent.fetch_single_certificate
fetch_single_certificate(serial, r) ==
    IF r.kind = "perm"
    THEN TaskNone(Warning("permission_denied", "cert", serial, "permission denied", 0))
    ELSE IF r.kind # "data"
    THEN TaskNone(Warning("parse_error", "cert", serial, "error reading", 0))
    ELSE IF r.certificate = None
    THEN TaskNone(Warning("parse_error", "cert", serial, "pem missing", 0))
    ELSE LET cert == parse_pem_safe(r.certificate[1], serial, r.issuer_id,
                                    r.revocation_time)
         IN IF cert.raised
            THEN TaskNone(Warning("parse_error", "cert", serial, "error reading", 0))
            ELSE TaskValue(cert.value[1])

\* HierarchyBuilder._fetch_issuers_concurrent.fetch_single_issuer
fetch_single_issuer(issuer_id, r) ==
    IF r.kind = "perm"
    THEN TaskNone(Warning("permission_denied", "issuer", issuer_id, "permission denied", 0))
    ELSE IF r.kind # "data"
    THEN TaskNone(Warning("parse_error", "issuer", issuer_id, "error reading", 0))
    ELSE IF r.certificate = None
    THEN TaskNone(Warning("parse_error", "issuer", issuer_id, "certificate missing", 0))
    ELSE IF ~r.certificate[1].parses
    THEN TaskNone(Warning("parse_error", "issuer", issuer_id, "error reading", 0))
    ELSE LET pem == r.certificate[1]
             issuer == Issuer(issuer_id, CnOrUnknown(pem.subject_cn),
                              IF is_self_signed(pem) THEN "root" ELSE "intermediate",
                              r.ca_chain)
         IN IF issuer.raised
            THEN TaskNone(Warning("parse_error", "issuer", issuer_id, "error reading", 0))
            ELSE TaskValue(issuer.value[1])

\* SimplifiedCertificateBuilder._fetch_issuers_map.fetch_single_issuer
fetch_single_issuer_map(issuer_id, r) ==
    IF r.kind = "perm"
    THEN TaskNone(Warning("permission_denied", "issuer", issuer_id, "permission denied", 0))
    ELSE IF r.kind # "data"
    THEN TaskNone(Warning("parse_error", "issuer", issuer_id, "error reading", 0))
    ELSE IF r.certificate = None
    THEN TaskNone(Warning("parse_error", "issuer", issuer_id, "certificate missing", 0))
    ELSE LET pem == r.certificate[1] IN
         TaskValue([issuer_id |-> issuer_id,
                    issuer_cn |-> IF pem.parses THEN CnOrUnknown(pem.subject_cn)
                                  ELSE "Unknown",
                    issuer_type |-> IF is_self_signed(pem) THEN "root" ELSE "intermediate",
                    is_root |-> is_self_signed(pem),
                    ca_chain |-> r.ca_chain])

\* A resolution that appends the root of the chain without comparing it
\* with the immediate issuer.
_resolve_issuer_chain_unchecked(issuer_id, issuers_map) ==
    IF issuer_id = None \/ ~(\E k \in 1..Len(issuers_map) :
                                issuers_map[k].issuer_id = issuer_id[1])
    THEN <<>>
    ELSE LET issuer_data == issuers_map[CHOOSE k \in 1..Len(issuers_map) :
                                            issuers_map[k].issuer_id = issuer_id[1]]
             cn == issuer_data.issuer_cn
             chain == issuer_data.ca_chain
             roots == SelectSeq(issuers_map, LAMBDA o : o.is_root /\ o.issuer_cn # cn)
         IN IF Len(chain) > 1
            THEN IF chain[Len(chain)] # "" THEN <<cn, chain[Len(chain)]>> ELSE <<cn>>
            ELSE IF ~issuer_data.is_root /\ roots # <<>>
                 THEN <<cn, roots[1].issuer_cn>>
                 ELSE <<cn>>

\* SimplifiedCertificateBuilder._resolve_issuer_chain; issuer_id is <<>> or
\* <<id>>, issuers_map the map's values in insertion order.
_resolve_issuer_chain(issuer_id, issuers_map) ==
    IF issuer_id = None \/ ~(\E k \in 1..Len(issuers_map) :
                                issuers_map[k].issuer_id = issuer_id[1])
    THEN <<>>
    ELSE LET issuer_data == issuers_map[CHOOSE k \in 1..Len(issuers_map) :
                                            issuers_map[k].issuer_id = issuer_id[1]]
             cn == issuer_data.issuer_cn
             chain == issuer_data.ca_chain
             roots == SelectSeq(issuers_map,
                                LAMBDA o : o.is_root /\ o.issuer_cn # cn)
         IN IF Len(chain) > 1
            THEN IF chain[Len(chain)] # "" /\ chain[Len(chain)] # cn
                 THEN <<cn, chain[Len(chain)]>>
                 ELSE <<cn>>
            ELSE IF ~issuer_data.is_root /\ roots # <<>>
                 THEN <<cn, roots[1].issuer_cn>>
                 ELSE <<cn>>

\* SimplifiedCertificateBuilder._fetch_simplified_certificates
\* .fetch_single_certificate, up to the read of the issuer id: the task's
\* outcome when it is decided, <<>> when the certificate parsed.
simplified_failure(serial, r) ==
    IF r.kind = "perm"
    THEN Some(TaskNone(Warning("permission_denied", "cert", serial, "permission denied", 0)))
    ELSE IF r.kind # "data"
    THEN Some(TaskNone(Warning("parse_error", "cert", serial, "error reading", 0)))
    ELSE IF r.certificate = None
    THEN Some(TaskNone(Warning("parse_error", "cert", serial, "pem missing", 0)))
    ELSE IF ~r.certificate[1].parses
    THEN Some(TaskNone(Warning("parse_error", "cert", serial, "error reading", 0)))
    ELSE None

\* A label that is always in the plural.
days_text_always_plural(days) == ToString(days) \o " days"

\* f"{days} day{'s' if days != 1 else ''}"
days_text(days) == ToString(days) \o " day" \o (IF days # 1 THEN "s" ELSE "")

\* expiring_in of a certificate that is not expired; total_seconds is
\* int((not_after - now).total_seconds()), and delta.days of a delta that is
\* not negative is total_seconds // 86400.
expiring_in(total_seconds) ==
    IF total_seconds >= 86400
    THEN days_text(total_seconds \div 86400)
    ELSE ToString(total_seconds \div 3600) \o "h "
            \o ToString((total_seconds % 3600) \div 60) \o "m"

\* The simplified record of a parsed certificate, once its issuer id is known.
simplified_certificate(serial, r, issuer_id, issuers_map) ==
    LET pem == r.certificate[1] IN
    [serial_number |-> serial,
     subject_cn |-> CnOrUnknown(pem.subject_cn),
     expired |-> IF 0 > pem.not_after THEN "yes" ELSE "no",
     expiring_in |-> IF 0 > pem.not_after THEN None ELSE Some(expiring_in(pem.not_after - 0)),
     revoked |-> IF r.revocation_time = "positive" THEN "yes" ELSE "no",
     issuers |-> _resolve_issuer_chain(issuer_id, issuers_map)]

(***************************************************************************)
(* HierarchyBuilder._organize_into_hierarchy and _calculate_metadata.      *)
(* iss is the issuer map's values in insertion order.                      *)
(***************************************************************************)
\* The last element of seq with this CN: d[cn] = x keeps the last x.
LastWithCn(seq, cn) ==
    seq[CHOOSE k \in 1..Len(seq) :
            /\ seq[k].issuer_cn = cn
            /\ \A l \in (k + 1)..Len(seq) : seq[l].issuer_cn # cn]

IssuerCns(seq) == [k \in 1..Len(seq) |-> seq[k].issuer_cn]

\* cert_groups: certificates grouped by issuer CN.
cert_group_keys(certs) == DictKeys(IssuerCns(certs))
cert_groups_get(certs, cn) == SelectSeq(certs, LAMBDA c : c.issuer_cn = cn)

\* root_cas: its keys and the issuer id stored under each (<<>> for the
\* None placeholder of an inferred root).
root_cas_keys(certs, iss) ==
    IF iss # <<>>
    THEN DictKeys(IssuerCns(SelectSeq(iss, LAMBDA x : x.issuer_type = "root")))
    ELSE SelectSeq(cert_group_keys(certs),
                   LAMBDA cn : \E k \in 1..Len(certs) :
                                  /\ certs[k].issuer_cn = cn
                                  /\ certs[k].subject_cn = certs[k].issuer_cn)

root_cas_id(iss, cn) ==
    LET roots == SelectSeq(iss, LAMBDA x : x.issuer_type = "root") IN
    IF \E k \in 1..Len(roots) : roots[k].issuer_cn = cn
    THEN Some(LastWithCn(roots, cn).issuer_id)
    ELSE None

intermediate_cas_keys(iss) ==
    DictKeys(IssuerCns(SelectSeq(iss, LAMBDA x : x.issuer_type # "root")))

intermediate_cas_id(iss, cn) ==
    Some(LastWithCn(SelectSeq(iss, LAMBDA x : x.issuer_type # "root"), cn).issuer_id)

IntermediateIssuerGroup(cn, id, certs) ==
    [intermediate_cn |-> cn, intermediate_issuer_id |-> id, certificates |-> certs]

RootIssuerGroup(cn, id, groups, direct) ==
    [root_cn |-> cn, root_issuer_id |-> id, intermediate_groups |-> groups,
     direct_certificates |-> direct]

\* The intermediate groups attached to the first root: every intermediate
\* CA that has certificates.
first_root_intermediates_first_only(certs, iss) ==
    LET keys == SelectSeq(intermediate_cas_keys(iss),
                          LAMBDA cn : cert_groups_get(certs, cn) # <<>>)
    IN [k \in 1..(IF keys = <<>> THEN 0 ELSE 1) |->
            IntermediateIssuerGroup(keys[k], intermediate_cas_id(iss, keys[k]),
                                    cert_groups_get(certs, keys[k]))]

first_root_intermediates(certs, iss) ==
    LET keys == SelectSeq(intermediate_cas_keys(iss),
                          LAMBDA cn : cert_groups_get(certs, cn) # <<>>)
    IN [k \in 1..Len(keys) |->
            IntermediateIssuerGroup(keys[k], intermediate_cas_id(iss, keys[k]),
                                    cert_groups_get(certs, keys[k]))]

\* The orphans were only the root CNs counted as processed.
orphaned_certificates_roots_only(certs, iss) ==
    LET processed == SeqToSet(root_cas_keys(certs, iss))
        keys == SelectSeq(cert_group_keys(certs), LAMBDA cn : cn \notin processed)
    IN Flatten([k \in 1..Len(keys) |-> cert_groups_get(certs, keys[k])])

orphaned_certificates(certs, iss) ==
    LET processed == SeqToSet(root_cas_keys(certs, iss))
                        \cup SeqToSet(intermediate_cas_keys(iss))
        keys == SelectSeq(cert_group_keys(certs), LAMBDA cn : cn \notin processed)
    IN Flatten([k \in 1..Len(keys) |-> cert_groups_get(certs, keys[k])])

\* Returns the root groups and the warnings list after the call (the call
\* appends to the list it is given).
_organize_into_hierarchy(certs, iss, warns) ==
    LET roots == root_cas_keys(certs, iss)
        groups == [k \in 1..Len(roots) |->
                      RootIssuerGroup(roots[k], root_cas_id(iss, roots[k]),
                                      IF k = 1 THEN first_root_intermediates(certs, iss)
                                      ELSE <<>>,
                                      cert_groups_get(certs, roots[k]))]
        orphans == orphaned_certificates(certs, iss)
    IN IF orphans # <<>>
       THEN [root_groups |-> Append(groups, RootIssuerGroup("Unknown Root", None, <<>>,
                                                            orphans)),
             warnings |-> Append(warns, Warning("missing_issuer", "certificates", "",
                                                "unresolvable issuers", Len(orphans)))]
       ELSE [root_groups |-> groups, warnings |-> warns]

\* A metadata that counts every certificate as expired.
_calculate_metadata_all_expired(certs, iss) ==
    [total_certificates |-> Len(certs),
     expired_count |-> Len(certs),
     revoked_count |-> Len(SelectSeq(certs, LAMBDA c : c.is_revoked)),
     root_ca_count |-> Len(SelectSeq(iss, LAMBDA x : x.issuer_type = "root")),
     intermediate_ca_count |-> Len(SelectSeq(iss, LAMBDA x : x.issuer_type = "intermediate"))]

_calculate_metadata(certs, iss) ==
    [total_certificates |-> Len(certs),
     expired_count |-> Len(SelectSeq(certs, LAMBDA c : c.is_expired)),
     revoked_count |-> Len(SelectSeq(certs, LAMBDA c : c.is_revoked)),
     root_ca_count |-> Len(SelectSeq(iss, LAMBDA x : x.issuer_type = "root")),
     intermediate_ca_count |-> Len(SelectSeq(iss, LAMBDA x : x.issuer_type = "intermediate"))]

\* SimplifiedCertificateBuilder._calculate_metadata
simplified_metadata(certs) ==
    [total_certificates |-> Len(certs),
     expired_count |-> Len(SelectSeq(certs, LAMBDA c : c.expired = "yes")),
     revoked_count |-> Len(SelectSeq(certs, LAMBDA c : c.revoked = "yes")),
     root_ca_count |-> 0,
     intermediate_ca_count |-> 0]

(***************************************************************************)
(* What a build call hands back.                                           *)
(***************************************************************************)
ZeroMetadata ==
    [total_certificates |-> 0, expired_count |-> 0, revoked_count |-> 0,
     root_ca_count |-> 0, intermediate_ca_count |-> 0]

Running ==
    [status |-> "running", error |-> "", root_issuers |-> <<>>, certificates |-> <<>>,
     warnings |-> <<>>, metadata |-> ZeroMetadata]

RaisedError(e) ==
    [status |-> "raised", error |-> e, root_issuers |-> <<>>, certificates |-> <<>>,
     warnings |-> <<>>, metadata |-> ZeroMetadata]

ReturnedHierarchy(h) ==
    [status |-> "returned", error |-> "", root_issuers |-> h.root_issuers,
     certificates |-> <<>>, warnings |-> h.warnings, metadata |-> h.metadata]

ReturnedList(certs, warns, metadata) ==
    [status |-> "returned", error |-> "", root_issuers |-> <<>>,
     certificates |-> certs, warnings |-> warns, metadata |-> metadata]

\* build_hierarchy's handler of an unexpected exception: a parse_error
\* warning for the mount, then the partial hierarchy.  A second
\* ValidationError leaves the call.
hierarchy_except_exception(certs, iss, warns) ==
    LET w == Append(warns, Warning("parse_error", "mount", "", "unexpected error", 0))
        metadata == _calculate_metadata(certs, iss)
        org == _organize_into_hierarchy(certs, iss, w)
        h == CertificateHierarchy(org.root_groups, org.warnings, metadata)
    IN IF h.raised THEN RaisedError("ValidationError") ELSE ReturnedHierarchy(h.value[1])

\* build_hierarchy, the "if not serial_numbers" return.
hierarchy_empty_return ==
    LET h == CertificateHierarchy(<<>>, <<>>, ZeroMetadata) IN
    IF h.raised THEN hierarchy_except_exception(<<>>, <<>>, <<>>)
    ELSE ReturnedHierarchy(h.value[1])

\* build_hierarchy, steps 4 and 5 and the return.
hierarchy_return(certs, iss, warns) ==
    LET org == _organize_into_hierarchy(certs, iss, warns)
        h == CertificateHierarchy(org.root_groups, org.warnings,
                                  _calculate_metadata(certs, iss))
    IN IF h.raised THEN hierarchy_except_exception(certs, iss, org.warnings)
       ELSE ReturnedHierarchy(h.value[1])

\* The typed error a failed mount listing is turned into.
BuilderError(b) ==
    IF b = "hierarchy" THEN "HierarchyBuilderError" ELSE "SimplifiedCertificateBuilderError"

(***************************************************************************)
(* build_hierarchy / build_simplified_list as a process.  hpc is one of    *)
(* "list_certificates", "certificates" (the certificate fan-out runs),     *)
(* "list_issuers", "issuers" (the issuer fan-out runs), "done".            *)
(* A fetch task is "created", "inflight" (awaiting read_certificate or     *)
(* read_issuer, inside the semaphore), "config" (awaiting                  *)
(* read_issuer_config, inside the semaphore) or "done".                    *)
(***************************************************************************)
\* No build call, no expression call, no filter_logs call in this run.
HIdle ==
    /\ vault = None
    /\ builder = "none"
    /\ hpc = "idle"
    /\ serial_numbers = <<>>
    /\ ctask = <<>>
    /\ cresp = <<>>
    /\ cresults = <<>>
    /\ cert_warnings = <<>>
    /\ completion_order = <<>>
    /\ semaphore_cert = 0
    /\ issuer_ids = <<>>
    /\ itask = <<>>
    /\ iresp = <<>>
    /\ iresults = <<>>
    /\ issuer_warnings = <<>>
    /\ semaphore_issuer = 0
    /\ warnings = <<>>
    /\ certificates = <<>>
    /\ issuers = <<>>
    /\ calls = <<>>
    /\ list_outcome = <<>>
    /\ ret = None

EIdle == expression = "" /\ message = "" /\ matches = None /\ evaluated = None

MIdle ==
    /\ event_data = None
    /\ match_criteria = None
    /\ process_result = None
    /\ matched = None
    /\ tool_response = None
    /\ criteria_args = None
    /\ constructed = None

FIdle ==
    /\ criteria = None
    /\ fpc = "idle"
    /\ target_streams = <<>>
    /\ iteration = 0
    /\ next_token = None
    /\ events_collected = 0
    /\ events_scanned = 0
    /\ api_calls_made = 0
    /\ backend_calls = 0
    /\ raw_events_received = 0
    /\ group_streams = <<>>
    /\ responses_received = 0
    /\ describe_outcome = "none"
    /\ errors = <<>>
    /\ fwarnings = <<>>
    /\ response = None
    /\ fret = None

NoCalls ==
    [list_certificates |-> 0, read_certificate |-> 0, list_issuers |-> 0,
     read_issuer |-> 0, read_issuer_config |-> 0]

HInit(v) ==
    /\ vault = v
    /\ builder \in {"hierarchy", "simplified"}
    /\ hpc = "list_certificates"
    /\ serial_numbers = <<>>
    /\ ctask = <<>>
    /\ cresp = <<>>
    /\ cresults = <<>>
    /\ cert_warnings = <<>>
    /\ completion_order = <<>>
    /\ semaphore_cert = CertSemaphore
    /\ issuer_ids = <<>>
    /\ itask = <<>>
    /\ iresp = <<>>
    /\ iresults = <<>>
    /\ issuer_warnings = <<>>
    /\ semaphore_issuer = IssuerSemaphore
    /\ warnings = <<>>
    /\ certificates = <<>>
    /\ issuers = <<>>
    /\ calls = NoCalls
    /\ list_outcome = [certs |-> "none", issuers |-> "none"]
    /\ ret = Running

\* An admission that does not look at the semaphore's value.
semaphore_acquire_unbounded(value) == value >= 0

\* asyncio.Semaphore.acquire returns only while the value is positive.
semaphore_acquire(value) == value > 0

\* "async with semaphore" leaves through __aexit__ on every path.
semaphore_release(value) == value + 1

\* tasks = [fetch_single_certificate(serial) for serial in serial_numbers]
\* with a fresh Semaphore(10) and empty local lists.
StartCertificateFanOut(serials) ==
    /\ hpc' = "certificates"
    /\ ctask' = [i \in 1..Len(serials) |-> "created"]
    /\ cresp' = [i \in 1..Len(serials) |-> None]
    /\ cresults' = [i \in 1..Len(serials) |-> None]
    /\ cert_warnings' = <<>>
    /\ completion_order' = <<>>
    /\ semaphore_cert' = CertSemaphore

\* serial_numbers = await self.vault_client.list_certificates(pki_mount_path)
ListCertificates ==
    /\ hpc = "list_certificates"
    /\ \E o \in vault.list_outcomes, n \in vault.n_certs :
        /\ calls' = [calls EXCEPT !.list_certificates = @ + 1]
        /\ list_outcome' = [list_outcome EXCEPT !.certs = o]
        /\ IF o # "ok"
           THEN /\ ret' = RaisedError(BuilderError(builder))
                /\ hpc' = "done"
                /\ UNCHANGED <<serial_numbers, ctask, cresp, cresults, cert_warnings, completion_order,
                               semaphore_cert>>
           ELSE IF n = 0
           THEN /\ ret' = IF builder = "hierarchy" THEN hierarchy_empty_return
                          ELSE ReturnedList(<<>>, <<>>, ZeroMetadata)
                /\ hpc' = "done"
                /\ UNCHANGED <<serial_numbers, ctask, cresp, cresults, cert_warnings, completion_order,
                               semaphore_cert>>
           ELSE /\ serial_numbers' = [i \in 1..n |-> ToString(i)]
                /\ ret' = ret
                /\ IF builder = "hierarchy"
                   THEN StartCertificateFanOut([i \in 1..n |-> ToString(i)])
                   ELSE /\ hpc' = "list_issuers"
                        /\ UNCHANGED <<ctask, cresp, cresults, cert_warnings, completion_order,
                                       semaphore_cert>>
    /\ UNCHANGED <<vault, builder, issuer_ids, itask, iresp, iresults, issuer_warnings,
                   semaphore_issuer, warnings, certificates, issuers>>
    /\ UNCHANGED <<evars, fvars, mvars>>

\* A certificate task enters "async with semaphore" and calls read_certificate.
AcquireCertificate(i) ==
    /\ hpc = "certificates"
    /\ ctask[i] = "created"
    /\ semaphore_acquire(semaphore_cert)
    /\ semaphore_cert' = semaphore_cert - 1
    /\ ctask' = [ctask EXCEPT ![i] = "inflight"]
    /\ calls' = [calls EXCEPT !.read_certificate = @ + 1]
    /\ UNCHANGED <<vault, builder, hpc, serial_numbers, cresp, cresults, cert_warnings, completion_order,
                   issuer_ids, itask, iresp, iresults, issuer_warnings, semaphore_issuer,
                   warnings, certificates, issuers, list_outcome, ret>>
    /\ UNCHANGED <<evars, fvars, mvars>>

\* The task's return: its value, its warning, the semaphore given back.
FinishCertificateTask(i, out) ==
    /\ cresults' = [cresults EXCEPT ![i] = out.result]
    /\ cert_warnings' = cert_warnings \o out.warns
    /\ completion_order' = IF Len(serial_numbers) <= MaxSerials
                          THEN Append(completion_order, i) ELSE completion_order
    /\ ctask' = [ctask EXCEPT ![i] = "done"]
    /\ semaphore_cert' = semaphore_release(semaphore_cert)

\* read_certificate answers task i, which runs on to its return or, in the
\* simplified builder for a certificate without issuer_id, to the
\* read_issuer_config call.
ReadCertificateReturns(i) ==
    /\ hpc = "certificates"
    /\ ctask[i] = "inflight"
    /\ \E r \in vault.cert_responses :
        /\ cresp' = [cresp EXCEPT ![i] = Some(r)]
        /\ IF builder = "hierarchy"
           THEN /\ FinishCertificateTask(i, fetch_single_certificate(serial_numbers[i], r))
                /\ calls' = calls
           ELSE LET failure == simplified_failure(serial_numbers[i], r) IN
                IF failure # None
                THEN /\ FinishCertificateTask(i, failure[1])
                     /\ calls' = calls
                ELSE IF r.issuer_id # None
                THEN /\ FinishCertificateTask(i,
                            TaskValue(simplified_certificate(serial_numbers[i], r,
                                                             r.issuer_id, issuers)))
                     /\ calls' = calls
                ELSE /\ ctask' = [ctask EXCEPT ![i] = "config"]
                     /\ calls' = [calls EXCEPT !.read_issuer_config = @ + 1]
                     /\ UNCHANGED <<cresults, cert_warnings, completion_order, semaphore_cert>>
    /\ UNCHANGED <<vault, builder, hpc, serial_numbers, issuer_ids, itask, iresp,
                   iresults, issuer_warnings, semaphore_issuer, warnings, certificates,
                   issuers, list_outcome, ret>>
    /\ UNCHANGED <<evars, fvars, mvars>>

\* read_issuer_config answers (a failure is logged, the issuer id stays
\* None) and the task runs on to its return.
ReadIssuerConfigReturns(i) ==
    /\ hpc = "certificates"
    /\ ctask[i] = "config"
    /\ \E c \in ConfigResponses :
        FinishCertificateTask(i,
            TaskValue(simplified_certificate(serial_numbers[i], cresp[i][1],
                                             IF c.ok THEN c.default ELSE None, issuers)))
    /\ UNCHANGED <<vault, builder, hpc, serial_numbers, cresp, issuer_ids, itask, iresp,
                   iresults, issuer_warnings, semaphore_issuer, warnings, certificates,
                   issuers, calls, list_outcome, ret>>
    /\ UNCHANGED <<evars, fvars, mvars>>

\* A gather that returns as soon as one task has ended without a value.
gather_returns_on_failure(tasks, results) ==
    \/ \A i \in 1..Len(tasks) : tasks[i] = "done"
    \/ \E i \in 1..Len(tasks) : tasks[i] = "done" /\ results[i] = None

\* await asyncio.gather(*tasks) returns when every task has returned; no
\* task raises, each catches every Exception.
gather_returns(tasks, results) == \A i \in 1..Len(tasks) : tasks[i] = "done"

\* The results in the order in which the tasks returned.
gather_results_as_completed(results) ==
    IF Len(completion_order) = Len(results)
    THEN Flatten([k \in 1..Len(results) |-> results[completion_order[k]]])
    ELSE Flatten(results)
\* The gathered results in task order, None dropped.
gather_results(results) == Flatten(results)

GatherCertificates ==
    /\ hpc = "certificates"
    /\ gather_returns(ctask, cresults)
    /\ certificates' = gather_results(cresults)
    /\ warnings' = warnings \o cert_warnings
    /\ IF builder = "hierarchy"
       THEN /\ hpc' = "list_issuers"
            /\ ret' = ret
       ELSE /\ hpc' = "done"
            /\ ret' = ReturnedList(gather_results(cresults), warnings \o cert_warnings,
                                   simplified_metadata(gather_results(cresults)))
    /\ UNCHANGED <<vault, builder, serial_numbers, ctask, cresp, cresults, cert_warnings, completion_order,
                   semaphore_cert, issuer_ids, itask, iresp, iresults, issuer_warnings,
                   semaphore_issuer, issuers, calls, list_outcome>>
    /\ UNCHANGED <<evars, fvars, mvars>>

\* The issuer fetch has returned (iss, iw) to the build call, which runs on:
\* build_hierarchy to its return, build_simplified_list to the certificate
\* fan-out.
AfterIssuers(iss, iw) ==
    /\ issuers' = iss
    /\ IF builder = "hierarchy"
       THEN /\ ret' = hierarchy_return(certificates, iss, warnings \o iw)
            /\ warnings' = IF ret'.status = "returned" THEN ret'.warnings
                           ELSE warnings \o iw
            /\ hpc' = "done"
            /\ UNCHANGED <<ctask, cresp, cresults, cert_warnings, completion_order, semaphore_cert>>
       ELSE /\ warnings' = warnings \o iw
            /\ ret' = ret
            /\ StartCertificateFanOut(serial_numbers)

\* Handlers that swallow the failed listing without a warning.
list_issuers_failure_silent(o) == <<>>

\* What _fetch_issuers_concurrent / _fetch_issuers_map answers when the
\* listing fails: its handlers turn the failure into one warning.
list_issuers_failure(o) ==
    IF o = "perm"
    THEN <<Warning("permission_denied", "issuers", "", "permission denied listing", 0)>>
    ELSE <<Warning("parse_error", "issuers", "", "error listing", 0)>>

\* issuer_ids = await self.vault_client.list_issuers(pki_mount_path)
ListIssuers ==
    /\ hpc = "list_issuers"
    /\ \E o \in vault.list_outcomes, m \in vault.n_issuers :
        /\ calls' = [calls EXCEPT !.list_issuers = @ + 1]
        /\ list_outcome' = [list_outcome EXCEPT !.issuers = o]
        /\ IF o # "ok"
           THEN /\ AfterIssuers(<<>>, list_issuers_failure(o))
                /\ issuer_warnings' = list_issuers_failure(o)
                /\ UNCHANGED <<issuer_ids, itask, iresp, iresults, semaphore_issuer>>
           ELSE IF m = 0
           THEN /\ AfterIssuers(<<>>, <<>>)
                /\ UNCHANGED <<issuer_ids, itask, iresp, iresults, issuer_warnings,
                               semaphore_issuer>>
           ELSE /\ issuer_ids' = [j \in 1..m |-> ToString(j)]
                /\ itask' = [j \in 1..m |-> "created"]
                /\ iresp' = [j \in 1..m |-> None]
                /\ iresults' = [j \in 1..m |-> None]
                /\ issuer_warnings' = <<>>
                /\ semaphore_issuer' = IssuerSemaphore
                /\ hpc' = "issuers"
                /\ UNCHANGED <<ctask, cresp, cresults, cert_warnings, completion_order, semaphore_cert,
                               warnings, issuers, ret>>
    /\ UNCHANGED <<vault, builder, serial_numbers, certificates>>
    /\ UNCHANGED <<evars, fvars, mvars>>

\* An issuer task enters "async with semaphore" and calls read_issuer.
AcquireIssuer(j) ==
    /\ hpc = "issuers"
    /\ itask[j] = "created"
    /\ semaphore_acquire(semaphore_issuer)
    /\ semaphore_issuer' = semaphore_issuer - 1
    /\ itask' = [itask EXCEPT ![j] = "inflight"]
    /\ calls' = [calls EXCEPT !.read_issuer = @ + 1]
    /\ UNCHANGED <<vault, builder, hpc, serial_numbers, ctask, cresp, cresults,
                   cert_warnings, completion_order, semaphore_cert, issuer_ids, iresp, iresults,
                   issuer_warnings, warnings, certificates, issuers, list_outcome, ret>>
    /\ UNCHANGED <<evars, fvars, mvars>>

\* read_issuer answers task j, which runs on to its return.
ReadIssuerReturns(j) ==
    /\ hpc = "issuers"
    /\ itask[j] = "inflight"
    /\ \E r \in vault.issuer_responses :
        LET out == IF builder = "hierarchy" THEN fetch_single_issuer(issuer_ids[j], r)
                   ELSE fetch_single_issuer_map(issuer_ids[j], r)
        IN /\ iresp' = [iresp EXCEPT ![j] = Some(r)]
           /\ iresults' = [iresults EXCEPT ![j] = out.result]
           /\ issuer_warnings' = issuer_warnings \o out.warns
           /\ itask' = [itask EXCEPT ![j] = "done"]
           /\ semaphore_issuer' = semaphore_release(semaphore_issuer)
    /\ UNCHANGED <<vault, builder, hpc, serial_numbers, ctask, cresp, cresults,
                   cert_warnings, completion_order, semaphore_cert, issuer_ids, warnings, certificates,
                   issuers, calls, list_outcome, ret>>
    /\ UNCHANGED <<evars, fvars, mvars>>

\* The issuer gather ends and the issuer map is built from its results.
GatherIssuers ==
    /\ hpc = "issuers"
    /\ gather_returns(itask, iresults)
    /\ AfterIssuers(gather_results(iresults), issuer_warnings)
    /\ UNCHANGED <<vault, builder, serial_numbers, certificates, issuer_ids, itask, iresp,
                   iresults, issuer_warnings, semaphore_issuer, calls, list_outcome>>
    /\ UNCHANGED <<evars, fvars, mvars>>

HNext ==
    \/ ListCertificates
    \/ \E i \in 1..Len(ctask) : AcquireCertificate(i)
    \/ \E i \in 1..Len(ctask) : ReadCertificateReturns(i)
    \/ \E i \in 1..Len(ctask) : ReadIssuerConfigReturns(i)
    \/ GatherCertificates
    \/ ListIssuers
    \/ \E j \in 1..Len(itask) : AcquireIssuer(j)
    \/ \E j \in 1..Len(itask) : ReadIssuerReturns(j)
    \/ GatherIssuers

vars == <<hvars, evars, fvars, mvars>>

\* An error response of a tool: {"error": {code, message, details}}.
McpError(code, error_message, details) ==
    [is_error |-> TRUE, code |-> code, message |-> error_message, details |-> details,
     result |-> None]

\* A tool's successful response: what the builder returned.
McpResult(r) ==
    [is_error |-> FALSE, code |-> "", message |-> "", details |-> {}, result |-> Some(r)]

\* vault_client.format_mcp_error, on the exception's class.
format_mcp_error(error_type) ==
    IF error_type = "VaultConnectionError"
    THEN McpError("VAULT_CONNECTION_ERROR", error_type, {"error_type"})
    ELSE IF error_type = "VaultAuthenticationError"
    THEN McpError("AUTHENTICATION_ERROR", error_type, {"error_type"})
    ELSE IF error_type = "VaultPermissionError"
    THEN McpError("PERMISSION_ERROR", error_type, {"error_type"})
    ELSE McpError("INTERNAL_ERROR", "Unexpected error: " \o error_type, {"error_type"})

\* The except clauses of the list_certificates tool, in their order.
list_certificates_except(error_type) ==
    IF error_type \in {"VaultConnectionError", "VaultAuthenticationError"}
    THEN format_mcp_error(error_type)
    ELSE IF error_type = "VaultPermissionError"
    THEN McpError("PERMISSION_ERROR", error_type, {"mount_path"})
    ELSE McpError("INTERNAL_ERROR", "Unexpected error processing PKI mount: " \o error_type,
                  {"mount_path", "error_type"})

\* The list_certificates tool from "result = await build_simplified_list"
\* to its return, the mount check having passed or been skipped.
ListCertificatesTool ==
    /\ builder = "simplified" /\ hpc = "done"
    /\ tool_response = None
    /\ tool_response' = Some(IF ret.status = "raised" THEN list_certificates_except(ret.error)
                             ELSE McpResult(ret))
    /\ UNCHANGED <<event_data, match_criteria, process_result, matched, criteria_args,
                   constructed, hvars, evars, fvars>>

Init == HInit(SmallVault) /\ EIdle /\ FIdle /\ MIdle
Next == HNext \/ ListCertificatesTool
Spec == Init /\ [][Next]_vars

\* The same process against a mount with more certificates and issuers than
\* the semaphores admit; every certificate carries its issuer_id.
InitGate == HInit(GateVault) /\ EIdle /\ FIdle /\ MIdle

NextGate ==
    \/ ListCertificates
    \/ \E i \in 1..Len(ctask) : AcquireCertificate(i)
    \/ \E i \in 1..Len(ctask) : ReadCertificateReturns(i)
    \/ GatherCertificates
    \/ ListIssuers
    \/ \E j \in 1..Len(itask) : AcquireIssuer(j)
    \/ \E j \in 1..Len(itask) : ReadIssuerReturns(j)
    \/ GatherIssuers

SpecGate == InitGate /\ [][NextGate]_vars

(***************************************************************************)
(* Properties of build_hierarchy and build_simplified_list.                *)
(***************************************************************************)
HierarchyDone == builder = "hierarchy" /\ hpc = "done"

\* An answer of read_certificate that carries a certificate body which
\* parses into a valid Certificate: the read has succeeded.
CertificateReadSucceeds(r) ==
    /\ r.kind = "data"
    /\ r.certificate # None
    /\ r.certificate[1].parses
    /\ r.certificate[1].not_after > r.certificate[1].not_before

PermissionDeniedReads == {i \in 1..Len(cresp) : cresp[i] # None /\ cresp[i][1].kind = "perm"}

OnePermissionDeniedRead ==
    /\ HierarchyDone
    /\ list_outcome.certs = "ok"
    /\ Len(serial_numbers) >= 1
    /\ Cardinality(PermissionDeniedReads) = 1
    /\ \A i \in 1..Len(cresp) :
          i \notin PermissionDeniedReads => CertificateReadSucceeds(cresp[i][1])
    /\ list_outcome.issuers = "ok"
    /\ \A j \in 1..Len(iresp) : iresp[j][1].kind = "data"

\* C1: build_hierarchy on a mount of N >= 1 serials, where exactly one
\* read_certificate fails with a permission error and every other read, the
\* issuer listing and every issuer read succeed, returns a hierarchy whose
\* metadata accounts for N-1 certificates and whose warnings hold exactly
\* one permission_denied warning.
C1_OnePermissionDenied ==
    OnePermissionDeniedRead =>
        /\ ret.status = "returned"
        /\ ret.metadata.total_certificates = Len(serial_numbers) - 1
        /\ Len(SelectSeq(ret.warnings, LAMBDA w : w.type = "permission_denied")) = 1

C1_Witness ==
    /\ OnePermissionDeniedRead
    /\ Len(serial_numbers) = 2
    /\ Len(issuer_ids) = 1
    /\ ret.status = "returned"

CertFanOutEnded ==
    /\ builder = "hierarchy"
    /\ list_outcome.certs = "ok"
    /\ serial_numbers # <<>>
    /\ hpc \in {"list_issuers", "issuers", "done"}

WarningsFor(serial) ==
    Len(SelectSeq(cert_warnings, LAMBDA w : w.resource = [kind |-> "cert", id |-> serial]))

\* C2: in the certificate fan-out of build_hierarchy every listed serial's
\* task is started and runs to its end whatever its siblings did; when the
\* fan-out has ended each serial has contributed exactly one outcome, a
\* certificate or a warning, so certificates + per-certificate warnings = N.
C2_EveryTaskCompletes ==
    CertFanOutEnded =>
        /\ Len(ctask) = Len(serial_numbers)
        /\ \A i \in 1..Len(ctask) :
              /\ ctask[i] = "done"
              /\ cresp[i] # None
              /\ IF cresults[i] # None
                 THEN /\ WarningsFor(serial_numbers[i]) = 0
                      /\ cresults[i][1].serial_number = serial_numbers[i]
                 ELSE WarningsFor(serial_numbers[i]) = 1
        /\ calls.read_certificate = Len(serial_numbers)
        /\ Len(certificates) + Len(cert_warnings) = Len(serial_numbers)

C2_Witness ==
    /\ CertFanOutEnded
    /\ hpc = "list_issuers"
    /\ Len(serial_numbers) = 2
    /\ Len(certificates) = 1
    /\ Len(cert_warnings) = 1
    /\ cresults[1] = None

InFlight(tasks) == Cardinality({i \in 1..Len(tasks) : tasks[i] = "inflight"})

\* C3: in every reachable state of a build_hierarchy or
\* build_simplified_list call at most 10 read_certificate calls and at most
\* 5 read_issuer calls are in flight.
C3_BoundedInFlight ==
    /\ InFlight(ctask) <= CertSemaphore
    /\ InFlight(itask) <= IssuerSemaphore

C3_Witness ==
    /\ InFlight(ctask) = CertSemaphore
    /\ \E i \in 1..Len(ctask) : ctask[i] = "created"
    /\ semaphore_cert = 0

ListFailed(o) == o \in {"perm", "conn"}

EmptyListing == list_outcome.certs = "ok" /\ serial_numbers = <<>>

SetMin(S) == CHOOSE a \in S : \A b \in S : a <= b
SetMax(S) == CHOOSE a \in S : \A b \in S : a >= b

Char(s, i) == SubSeq(s, i, i)

Whitespace == {" ", "\t", "\n", "\r"}

\* s.strip()
strip(s) ==
    LET keep == {i \in 1..Len(s) : Char(s, i) \notin Whitespace} IN
    IF keep = {} THEN "" ELSE SubSeq(s, SetMin(keep), SetMax(keep))

startswith(s, prefix) == Len(prefix) <= Len(s) /\ SubSeq(s, 1, Len(prefix)) = prefix
endswith(s, suffix) ==
    Len(suffix) <= Len(s) /\ SubSeq(s, Len(s) - Len(suffix) + 1, Len(s)) = suffix

\* The positions at which sub occurs in s.
Occurrences(s, sub) ==
    {i \in 1..(Len(s) - Len(sub) + 1) : SubSeq(s, i, i + Len(sub) - 1) = sub}

\* sub in s
str_in(sub, s) == Occurrences(s, sub) # {}

\* s.split(sep, 1), for a sep that occurs in s
split_once(s, sep) ==
    LET i == SetMin(Occurrences(s, sep)) IN
    <<SubSeq(s, 1, i - 1), SubSeq(s, i + Len(sep), Len(s))>>

RECURSIVE split(_, _)
\* s.split(sep)
split(s, sep) ==
    IF ~str_in(sep, s) THEN <<s>>
    ELSE <<split_once(s, sep)[1]>> \o split(split_once(s, sep)[2], sep)

\* ASCII 32..95 and 97..126, in code order.
AsciiLow == " !\"#$%&'()*+,-./0123456789:;<=>?@ABCDEFGHIJKLMNOPQRSTUVWXYZ[\\]^_"
AsciiHigh == "abcdefghijklmnopqrstuvwxyz{|}~"
Uppercase == "ABCDEFGHIJKLMNOPQRSTUVWXYZ"
Digits == "0123456789"

ord(c) ==
    IF str_in(c, AsciiLow) THEN 31 + SetMin(Occurrences(AsciiLow, c))
    ELSE 96 + SetMin(Occurrences(AsciiHigh, c))

RECURSIVE lower(_)
\* s.lower()
lower(s) ==
    IF s = "" THEN ""
    ELSE (IF str_in(Head(s), Uppercase)
          THEN Char(AsciiHigh, SetMin(Occurrences(Uppercase, Head(s))))
          ELSE Head(s)) \o lower(Tail(s))

RECURSIVE str_less(_, _)
\* a < b on str: by code point, a proper prefix first.
str_less(a, b) ==
    IF b = "" THEN FALSE
    ELSE IF a = "" THEN TRUE
    ELSE IF Head(a) = Head(b) THEN str_less(Tail(a), Tail(b))
    ELSE ord(Head(a)) < ord(Head(b))

(***************************************************************************)
(* Python values: [t, v].  A number is v = <<m, k>>, the value m / 10^k.   *)
(***************************************************************************)
PyStr(s) == [t |-> "str", v |-> s]
PyInt(n) == [t |-> "num", v |-> <<n, 0>>]
PyFloat(m, k) == [t |-> "num", v |-> <<m, k>>]
PyBool(b) == [t |-> "bool", v |-> b]
PyNone == [t |-> "none", v |-> 0]
PyDict(f) == [t |-> "dict", v |-> f]
EmptyDict == PyDict(<<>>)

\* d.get(key) and d.get(key, default) on a dict
dict_get(d, key) == IF key \in DOMAIN d.v THEN d.v[key] ELSE PyNone
dict_get_default(d, key, default) == IF key \in DOMAIN d.v THEN d.v[key] ELSE default

\* bool is a subclass of int: True is 1, False is 0.
is_number(a) == a.t \in {"num", "bool"}
number(a) == IF a.t = "bool" THEN <<IF a.v THEN 1 ELSE 0, 0>> ELSE a.v

RECURSIVE Pow10(_)
Pow10(k) == IF k = 0 THEN 1 ELSE 10 * Pow10(k - 1)

\* left == right, for a right operand that is a str, a number or a bool
py_eq(a, b) ==
    IF is_number(a) /\ is_number(b)
    THEN number(a)[1] * Pow10(number(b)[2]) = number(b)[1] * Pow10(number(a)[2])
    ELSE IF a.t = "str" /\ b.t = "str" THEN a.v = b.v
    ELSE IF a.t = "none" /\ b.t = "none" THEN TRUE
    ELSE FALSE

\* Whether left < right is defined; if not Python raises TypeError.
py_ordered(a, b) == (is_number(a) /\ is_number(b)) \/ (a.t = "str" /\ b.t = "str")

\* left < right, where defined
py_lt(a, b) ==
    IF a.t = "str" THEN str_less(a.v, b.v)
    ELSE number(a)[1] * Pow10(number(b)[2]) < number(b)[1] * Pow10(number(a)[2])

\* bool(x)
truthy(a) ==
    CASE a.t = "none" -> FALSE
      [] a.t = "bool" -> a.v
      [] a.t = "num" -> a.v[1] # 0
      [] a.t = "str" -> a.v # ""
      [] a.t = "dict" -> DOMAIN a.v # {}

(***************************************************************************)
(* services/compound_expression_parser.py.  A result is Returned(b) or     *)
(* Raised (an exception leaves the function).                              *)
(***************************************************************************)
\* _fast_vault_pki_check: "needle" in path, for the path it read.
path_contains(path, needle) ==
    IF path.t = "str" THEN str_in(needle, path.v) ELSE needle \in DOMAIN path.v

_fast_vault_pki_check(expr, log_data) ==
    IF ~(str_in("request.operation", expr) /\ str_in("pki_int/issue", expr))
    THEN Returned(FALSE)
    ELSE IF log_data.t # "dict" THEN Raised
    ELSE LET request == dict_get_default(log_data, "request", EmptyDict) IN
    IF request.t # "dict" THEN Raised
    ELSE IF ~py_eq(dict_get(request, "operation"), PyStr("update")) THEN Returned(FALSE)
    ELSE LET path == dict_get_default(request, "path", PyStr("")) IN
    IF path.t \notin {"str", "dict"} THEN Raised
    ELSE IF ~path_contains(path, "pki_int/issue") THEN Returned(FALSE)
    ELSE LET auth == dict_get_default(log_data, "auth", EmptyDict) IN
    IF auth.t # "dict" THEN Raised
    ELSE IF ~truthy(dict_get(auth, "entity_id")) THEN Returned(FALSE)
    ELSE LET resp == dict_get_default(log_data, "response", EmptyDict) IN
    IF resp.t # "dict" THEN Raised
    ELSE IF dict_get_default(resp, "data", EmptyDict).t # "dict" THEN Raised
    ELSE Returned(FALSE)

\* Open minus closed parentheses among the first n characters.
ParenLevel(s, n) ==
    Cardinality({i \in 1..n : Char(s, i) = "("}) - Cardinality({i \in 1..n : Char(s, i) = ")"})

\* Where the scan of _find_main_operator meets op at parenthesis level 0;
\* the scan stops before the last character.
TopLevel(expr, op) ==
    {i \in 1..(Len(expr) - 1) : SubSeq(expr, i, i + 1) = op /\ ParenLevel(expr, i - 1) = 0}

SplitAt(expr, op) ==
    LET i == SetMin(TopLevel(expr, op)) IN
    [operator |-> op, left |-> strip(SubSeq(expr, 1, i - 1)),
     right |-> strip(SubSeq(expr, i + 2, Len(expr)))]

\* A scan that looks for && before ||.
_find_main_operator_and_first(expr) ==
    IF TopLevel(expr, "&&") # {} THEN SplitAt(expr, "&&")
    ELSE IF TopLevel(expr, "||") # {} THEN SplitAt(expr, "||")
    ELSE [operator |-> "", left |-> "", right |-> ""]

_find_main_operator(expr) ==
    IF TopLevel(expr, "||") # {} THEN SplitAt(expr, "||")
    ELSE IF TopLevel(expr, "&&") # {} THEN SplitAt(expr, "&&")
    ELSE [operator |-> "", left |-> "", right |-> ""]

_remove_outer_parentheses(expr) ==
    LET e == strip(expr) IN
    IF ~startswith(e, "(") \/ ~endswith(e, ")") THEN e
    ELSE IF \E i \in 1..(Len(e) - 1) : Char(e, i) = ")" /\ ParenLevel(e, i) = 0 THEN e
    ELSE strip(SubSeq(e, 2, Len(e) - 1))

_evaluate_json_path_traverse(current, parts) ==
    LET RECURSIVE walk(_, _)
        walk(cur, k) ==
            IF k > Len(parts) THEN cur
            ELSE IF cur.t = "dict" THEN walk(dict_get(cur, parts[k]), k + 1)
            ELSE PyNone
    IN walk(current, 1)

_evaluate_json_path(path, data) ==
    LET p == strip(path)
        q == IF startswith(p, "$.") THEN SubSeq(p, 3, Len(p))
             ELSE IF startswith(p, "$") THEN SubSeq(p, 2, Len(p))
             ELSE p
    IN _evaluate_json_path_traverse(data, IF q = "" THEN <<>> ELSE split(q, "."))

\* int(value) and float(value): the decimal numerals, with an optional sign.
Unsigned(s) == IF startswith(s, "-") \/ startswith(s, "+") THEN Tail(s) ELSE s
IsDigits(s) == s # "" /\ \A i \in 1..Len(s) : str_in(Char(s, i), Digits)

RECURSIVE DigitsValue(_)
DigitsValue(s) ==
    IF s = "" THEN 0
    ELSE 10 * DigitsValue(SubSeq(s, 1, Len(s) - 1))
            + SetMin(Occurrences(Digits, Char(s, Len(s)))) - 1

Signed(s, n) == IF startswith(s, "-") THEN 0 - n ELSE n

int_parses(s) == IsDigits(Unsigned(s))
int_value(s) == PyInt(Signed(s, DigitsValue(Unsigned(s))))

float_parses(s) ==
    LET parts == split(Unsigned(s), ".") IN
    /\ Len(parts) = 2
    /\ parts[1] = "" \/ IsDigits(parts[1])
    /\ parts[2] = "" \/ IsDigits(parts[2])
    /\ parts[1] # "" \/ parts[2] # ""
float_value(s) ==
    LET parts == split(Unsigned(s), ".") IN
    PyFloat(Signed(s, DigitsValue(parts[1] \o parts[2])), Len(parts[2]))

_parse_literal_value(text) ==
    LET value == strip(text) IN
    IF (startswith(value, "\"") /\ endswith(value, "\""))
       \/ (startswith(value, "'") /\ endswith(value, "'"))
    THEN PyStr(SubSeq(value, 2, Len(value) - 1))
    ELSE IF str_in(".", value) /\ float_parses(value) THEN float_value(value)
    ELSE IF ~str_in(".", value) /\ int_parses(value) THEN int_value(value)
    ELSE IF lower(value) = "true" THEN PyBool(TRUE)
    ELSE IF lower(value) = "false" THEN PyBool(FALSE)
    ELSE PyStr(value)

\* self.operators[op](left, right) for the comparison operators; the
\* ordering operators catch TypeError and return False.
compare(op, left, right) ==
    CASE op = "=" -> py_eq(left, right)
      [] op = "!=" -> ~py_eq(left, right)
      [] op = ">" -> py_ordered(left, right) /\ py_lt(right, left)
      [] op = "<" -> py_ordered(left, right) /\ py_lt(left, right)
      [] op = ">=" -> py_ordered(left, right) /\ ~py_lt(left, right)
      [] op = "<=" -> py_ordered(left, right) /\ ~py_lt(right, left)

\* The order in which _evaluate_condition looks for an operator.
ComparisonOperators == <<"!=", ">=", "<=", "=", ">", "<">>

\* Raised is CompoundExpressionError: no comparison operator.
_evaluate_condition(text, log_data) ==
    LET condition == strip(text)
        found == {k \in 1..Len(ComparisonOperators) :
                     str_in(ComparisonOperators[k], condition)}
    IN IF found = {} THEN Raised
       ELSE LET op == ComparisonOperators[SetMin(found)]
                parts == split_once(condition, op)
            IN Returned(compare(op, _evaluate_json_path(strip(parts[1]), log_data),
                                _parse_literal_value(strip(parts[2]))))

RECURSIVE _evaluate_expression(_, _)
\* Both operands are evaluated before the logical operator is applied.
_evaluate_expression(text, log_data) ==
    LET expr == _remove_outer_parentheses(text)
        main == _find_main_operator(expr)
    IN IF main.operator = "" THEN _evaluate_condition(expr, log_data)
       ELSE LET left_result == _evaluate_expression(main.left, log_data) IN
            IF left_result.raised THEN Raised
            ELSE LET right_result == _evaluate_expression(main.right, log_data) IN
                 IF right_result.raised THEN Raised
                 ELSE Returned(IF main.operator = "&&"
                               THEN left_result.value[1] /\ right_result.value[1]
                               ELSE left_result.value[1] \/ right_result.value[1])

\* The body of parse_and_evaluate's try block.
parse_and_evaluate_try(text, log_data) ==
    LET expr == strip(text) IN
    IF expr = "" THEN Returned(TRUE)
    ELSE LET fast == _fast_vault_pki_check(expr, log_data) IN
         IF fast.raised THEN Raised
         ELSE IF fast.value[1] THEN Returned(TRUE)
         ELSE _evaluate_expression(expr, log_data)

\* except Exception: return False
parse_and_evaluate(text, log_data) ==
    LET body == parse_and_evaluate_try(text, log_data) IN
    IF body.raised THEN Returned(FALSE) ELSE body

(***************************************************************************)
(* Log messages.  The JSON messages are the compact encodings of the       *)
(* documents below; json.loads is the inverse of that encoding on them and *)
(* raises JSONDecodeError on every other text of the model.                *)
(***************************************************************************)
Abc(a, b, c) == PyDict([a |-> a, b |-> b, c |-> c])

AuditEntry(operation, path) ==
    PyDict([auth |-> PyDict([entity_id |-> PyStr("e1")]),
            request |-> PyDict([operation |-> PyStr(operation), path |-> PyStr(path)]),
            response |-> PyDict([data |-> PyDict([expiration |-> PyInt(9)])])])

Documents ==
    << EmptyDict,
       Abc(PyInt(1), PyInt(9), PyInt(3)),
       Abc(PyInt(1), PyInt(2), PyInt(4)),
       Abc(PyInt(2), PyInt(2), PyInt(3)),
       Abc(PyInt(2), PyInt(9), PyInt(4)),
       Abc(PyStr("x"), PyNone, PyBool(TRUE)),
       AuditEntry("update", "pki_int/issue/web"),
       AuditEntry("read", "pki_int/issue/web"),
       AuditEntry("update", "sys/health"),
       PyDict([request |-> PyDict([operation |-> PyStr("update"),
                                   path |-> PyStr("pki_int/issue/web")])]),
       PyDict([request |-> PyDict([operation |-> PyStr("update"), path |-> PyNone])]),
       PyDict([request |-> PyStr("update pki_int/issue/web")]),
       PyDict([operation |-> PyStr("pki_int/issue entity_id")]) >>

\* The order in which the encoder writes the keys of an object.
KeyOrder ==
    <<"a", "b", "c", "auth", "entity_id", "request", "operation", "path", "response",
      "data", "expiration">>

RECURSIVE json_dumps(_)
json_dumps(x) ==
    CASE x.t = "str" -> "\"" \o x.v \o "\""
      [] x.t = "num" -> ToString(x.v[1])
      [] x.t = "bool" -> IF x.v THEN "true" ELSE "false"
      [] x.t = "none" -> "null"
      [] x.t = "dict" ->
            LET keys == SelectSeq(KeyOrder, LAMBDA k : k \in DOMAIN x.v)
                RECURSIVE members(_)
                members(n) ==
                    IF n > Len(keys) THEN ""
                    ELSE "\"" \o keys[n] \o "\":" \o json_dumps(x.v[keys[n]])
                            \o (IF n < Len(keys) THEN "," ELSE "") \o members(n + 1)
            IN "{" \o members(1) \o "}"

\* json.loads(text): Raised is JSONDecodeError.
json_loads(text) ==
    LET hits == {k \in 1..Len(Documents) : json_dumps(Documents[k]) = text} IN
    IF hits = {} THEN Raised ELSE Returned(Documents[SetMin(hits)])

RECURSIVE Spaces(_)
Spaces(n) ==
    IF n = 0 THEN ""
    ELSE IF n % 2 = 0 THEN LET half == Spaces(n \div 2) IN half \o half
    ELSE " " \o Spaces(n - 1)

\* The message length above which matches_compound_expression gives up.
MaxMessageLength == 5000

Messages ==
    {json_dumps(Documents[k]) : k \in 1..Len(Documents)}
        \cup {"  " \o json_dumps(Documents[2]) \o "\n",
              json_dumps(Documents[7]) \o Spaces(MaxMessageLength),
              "", "plain text", "{not json}", "{\"a\":1",
              "GET pki_int/issue \"operation\" entity_id"}

(***************************************************************************)
(* services/pattern_matcher.py: matches_compound_expression.               *)
(***************************************************************************)
\* The keyword pre-checks: TRUE when one of them rejects the message.
keyword_precheck_rejects(msg, expr) ==
    \/ str_in("request.operation", expr) /\ ~str_in("\"operation\"", msg)
    \/ str_in("pki_int/issue", expr) /\ ~str_in("pki_int/issue", msg)
    \/ str_in("entity_id", expr) /\ ~str_in("entity_id", msg)

\* The document the message is evaluated against: Raised when the message
\* is rejected instead.
message_document(msg, expr) ==
    LET text == strip(msg) IN
    IF startswith(text, "{") /\ endswith(text, "}")
    THEN LET parsed == json_loads(text) IN
         IF ~parsed.raised THEN parsed
         ELSE IF str_in("$.", expr) THEN Raised
         ELSE Returned(PyDict([message |-> PyStr(msg)]))
    ELSE IF str_in("$.", expr) THEN Raised
    ELSE Returned(PyDict([message |-> PyStr(msg)]))

matches_compound_expression(msg, expr) ==
    IF expr = "" THEN TRUE
    ELSE IF str_in("$.", expr) /\ ~startswith(strip(msg), "{") THEN FALSE
    ELSE IF str_in("$.", expr) /\ keyword_precheck_rejects(msg, expr) THEN FALSE
    ELSE IF Len(msg) > MaxMessageLength THEN FALSE
    ELSE LET log_data == message_document(msg, expr) IN
         IF log_data.raised THEN FALSE
         ELSE parse_and_evaluate(expr, log_data.value[1]).value[1]

(***************************************************************************)
(* The expressions of the model, and the two calls as a process.           *)
(***************************************************************************)
\* Conditions path op literal, without parentheses.
Conditions ==
    {"$.a = 1", "$.b = 2", "$.c = 3", "$.a != 1", "$.b >= 9", "$.c<4"}

AndOr(A, B, C) == A \o " && " \o B \o " || " \o C
OrAnd(A, B, C) == A \o " || " \o B \o " && " \o C

PrecedenceExpressions ==
    {AndOr(A, B, C) : A \in Conditions, B \in Conditions, C \in Conditions}
        \cup {OrAnd(A, B, C) : A \in Conditions, B \in Conditions, C \in Conditions}

\* Expressions of the grammar expr := expr (&& | ||) expr | ( expr ) | path op literal.
WellFormedExpressions ==
    {"$.a = \"x\"", "$.a = true", "($.a = 1)", "(($.a = 1) && ($.b = 2)) || ($.c = 3)",
     "$.request.operation = \"update\"",
     "$.request.operation != \"update\"",
     "$.request.operation = \"update\" && $.request.path = \"pki_int/issue/web\"",
     "$.request.path != \"pki_int/issue/web\" || $.request.operation = \"read\"",
     "$.request.operation != \"pki_int/issue\"",
     "$.auth.entity_id != \"\"",
     "$.auth.entity_id = \"e1\"",
     "$.response.data.expiration > 5.5"}

\* Texts that are not expressions of the grammar.
MalformedExpressions ==
    {"$.a", "abc", "&&", "(", "$.a = 1 &&", "|| $.a = 1", "$.a = 1 || $.b",
     "$.a = 1 && && $.b = 2", "($.a != 1", "$.a != 1)", "$.a != "}

\* Operands that are not conditions of the grammar.
MalformedOperands == {"$.a", "abc", "($.a != 1", "$.a != 1)", "$.a != "}

\* A condition combined with a malformed operand.
MalformedOperandExpressions ==
    UNION {{A \o " || " \o M, M \o " || " \o A, A \o " && " \o M} :
              <<A, M>> \in Conditions \X MalformedOperands}

Expressions ==
    PrecedenceExpressions \cup WellFormedExpressions \cup MalformedExpressions
        \cup MalformedOperandExpressions \cup {"", "   "}

EInit ==
    /\ expression \in Expressions
    /\ message \in Messages
    /\ matches = None
    /\ evaluated = None

\* PatternMatcher.matches_compound_expression(message, expression)
MatchesCompoundExpression ==
    /\ matches = None
    /\ matches' = Some(matches_compound_expression(message, expression))
    /\ UNCHANGED <<expression, message, evaluated, hvars, fvars, mvars>>

\* CompoundExpressionParser.parse_and_evaluate(expression, log_data), on the
\* document of a JSON message.
ParseAndEvaluate ==
    /\ evaluated = None
    /\ ~json_loads(strip(message)).raised
    /\ evaluated' = Some(parse_and_evaluate(expression, json_loads(strip(message)).value[1]))
    /\ UNCHANGED <<expression, message, matches, hvars, fvars, mvars>>

InitExpr == HIdle /\ EInit /\ FIdle /\ MIdle
NextExpr == MatchesCompoundExpression \/ ParseAndEvaluate
SpecExpr == InitExpr /\ [][NextExpr]_vars

(***************************************************************************)
(* Claims about the expression evaluator.                                  *)
(***************************************************************************)
\* The document of the message, when the message is a JSON message.
MessageIsJson == ~json_loads(strip(message)).raised
MessageDocument == json_loads(strip(message)).value[1]

\* C6: parse_and_evaluate never raises: it returns a boolean for every
\* expression and every document, and it returns False for every malformed
\* expression.
C6_Original ==
    evaluated # None =>
        /\ ~evaluated[1].raised
        /\ evaluated[1].value[1] \in BOOLEAN
        /\ expression \in MalformedExpressions => evaluated[1].value[1] = FALSE

\* What one condition alone evaluates to on the document.
ConditionHolds(A) == _evaluate_condition(A, MessageDocument).value[1]

full_evaluation(text, log_data) ==
    LET expr == strip(text) IN
    IF expr = "" THEN TRUE
    ELSE LET body == _evaluate_expression(expr, log_data) IN
         IF body.raised THEN FALSE ELSE body.value[1]

\* C8: the short-circuits never change the result: on a JSON message of at
\* most 5000 characters matches_compound_expression returns what full
\* evaluation on the message's document returns, and parse_and_evaluate
\* returns what it returns without _fast_vault_pki_check.
C8_Original ==
    /\ (matches # None /\ MessageIsJson /\ Len(message) <= MaxMessageLength)
          => matches[1] = full_evaluation(expression, MessageDocument)
    /\ evaluated # None
          => evaluated[1] = Returned(full_evaluation(expression, MessageDocument))

(***************************************************************************)
(* services/log_filter.py: LogFilter.filter_logs.                          *)
(***************************************************************************)
\* FilterCriteria: the fields filter_logs reads that decide its control flow.
FilterCriteria(log_stream_names, max_events, token) ==
    [log_stream_names |-> log_stream_names, max_events |-> max_events, next_token |-> token]

\* bool(next_token): None and "" are falsy.
token_truthy(token) == token # None /\ token[1] # ""

\* dataclass QueryResults; __post_init__ sets events_matched to len(events).
QueryResults(events, scanned, calls_made, token, streams, errs, warns) ==
    [events |-> events, total_events |-> scanned, next_token |-> token,
     has_more_events |-> token_truthy(token), log_streams_queried |-> streams,
     events_scanned |-> scanned, events_matched |-> Len(events),
     api_calls_made |-> calls_made, errors |-> errs, warnings |-> warns]

\* all_events: one converted LogEvent for each collected event.
all_events(collected) == [k \in 1..collected |-> "LogEvent"]

\* criteria has no attribute target_streams: getattr gives the default [].
_create_result(collected, scanned, calls_made, token, warns, errs) ==
    QueryResults(all_events(collected), scanned, calls_made, token, <<>>, errs, warns)

_create_empty_result(warns, errs) ==
    QueryResults(<<>>, 0, 0, None, <<>>, errs, warns)

\* The handler of filter_logs' outer try: partial results with the error first.
filter_logs_except(collected, scanned, calls_made, streams, warns, errs) ==
    QueryResults(all_events(collected), scanned, calls_made, None, streams,
                 <<"error">> \o errs, warns)

\* The conversion loop over one page.  An event without a timestamp ("bad")
\* raises KeyError; the loop breaks once max_events events are collected.
RECURSIVE convert_events(_, _, _)
convert_events(raw_events, collected, max_events) ==
    IF raw_events = <<>> THEN [events_collected |-> collected, raised |-> FALSE]
    ELSE IF Head(raw_events) = "bad" THEN [events_collected |-> collected, raised |-> TRUE]
    ELSE IF collected + 1 >= max_events
         THEN [events_collected |-> collected + 1, raised |-> FALSE]
         ELSE convert_events(Tail(raw_events), collected + 1, max_events)

\* if events_collected >= 1: break
enough_events_collected_never(collected) == FALSE
enough_events_collected(collected) == collected >= 1

\* for iteration in range(max_iterations): no further iteration after this one.
range_never_exhausted(i) == FALSE
range_exhausted(i) == i + 1 >= max_iterations

\* A count of the events that were converted only.
scanned_after_converted_only(scanned, raw_events) ==
    scanned + Len(SelectSeq(raw_events, LAMBDA e : e = "ok"))

\* events_scanned += len(raw_events)
scanned_after(scanned, raw_events) == scanned + Len(raw_events)

\* What the backend may answer to one filter_log_events call.
Pages == UNION {[1..n -> {"ok", "bad"}] : n \in 0..MaxPageEvents}
Tokens == {None, Some(""), Some("t")}
Responses == [events : Pages, nextToken : Tokens]

FInit ==
    /\ criteria \in {FilterCriteria(streams, max_events, token) :
                        streams \in {<<>>, <<"s1">>}, max_events \in 1..MaxEvents,
                        token \in {None, Some("t")}}
    /\ fpc = "streams"
    /\ target_streams = <<>>
    /\ iteration = 0
    /\ next_token = None
    /\ events_collected = 0
    /\ events_scanned = 0
    /\ api_calls_made = 0
    /\ backend_calls = 0
    /\ raw_events_received = 0
    /\ group_streams = <<>>
    /\ responses_received = 0
    /\ describe_outcome = "none"
    /\ errors = <<>>
    /\ fwarnings = <<>>
    /\ response = None
    /\ fret = None

\* A stream of the log group; last_event_time is "recent" (within the last 7
\* days), "old", or "none" (no lastEventTime recorded).
LogStream(k, last) == [log_stream_name |-> "s" \o ToString(k), last_event_time |-> last]

\* The log groups of the model: every small group, and groups with more
\* streams than one describe call asks for, whose streams repeat a pattern
\* of three.
LogGroups ==
    UNION {{[k \in 1..n |-> LogStream(k, last[k])] :
               last \in [1..n -> {"recent", "old", "none"}]} : n \in 0..MaxGroupStreams}
        \cup {[k \in 1..LargeGroupStreams |-> LogStream(k, pattern[((k - 1) % 3) + 1])] :
                 pattern \in {<<"recent", "recent", "recent">>, <<"recent", "none", "old">>,
                              <<"old", "old", "old">>}}

\* What describe_log_streams may do: raise (the log group is not found, the
\* call is refused or times out) or return streams of the group.
DescribeOutcomes ==
    {[outcome |-> "raised", streams |-> <<>>]}
        \cup {[outcome |-> "returned", streams |-> g] : g \in LogGroups}

\* CloudWatchClient.describe_log_streams: at most min(limit, 50) streams, in
\* the order asked for.
describe_log_streams(group, limit) ==
    SubSeq(group, 1, SetMin({limit, 50, Len(group)}))

\* A resolution that keeps only streams with a recent last event.
_get_active_log_streams_recent_only(d, limit) ==
    IF d.outcome = "raised" THEN <<>>
    ELSE LET streams == describe_log_streams(d.streams, limit)
             active == SelectSeq(streams, LAMBDA x : x.last_event_time = "recent")
         IN [k \in 1..Len(active) |-> active[k].log_stream_name]

\* _get_active_log_streams: every exception of the call becomes []; a stream
\* is kept when its last event is recent or not recorded.
_get_active_log_streams(d, limit) ==
    IF d.outcome = "raised" THEN <<>>
    ELSE LET streams == describe_log_streams(d.streams, limit)
             active == SelectSeq(streams, LAMBDA x : x.last_event_time # "old")
         IN [k \in 1..Len(active) |-> active[k].log_stream_name]

\* Lines 66-82: the target streams, resolved when the criteria name none.
GetTargetStreams ==
    /\ fpc = "streams"
    /\ \E d \in IF criteria.log_stream_names # <<>>
                THEN {[outcome |-> "none", streams |-> <<>>]} ELSE DescribeOutcomes :
          LET streams == IF criteria.log_stream_names # <<>>
                         THEN criteria.log_stream_names ELSE _get_active_log_streams(d, 10) IN
          /\ describe_outcome' = d.outcome
          /\ group_streams' = d.streams
          /\ target_streams' = streams
          /\ IF streams = <<>>
             THEN /\ fwarnings' = Append(fwarnings, "No active log streams found")
                  /\ fret' = Some(_create_empty_result(fwarnings', errors))
                  /\ fpc' = "done"
                  /\ UNCHANGED next_token
             ELSE /\ next_token' = criteria.next_token
                  /\ fpc' = "loop"
                  /\ UNCHANGED <<fwarnings, fret>>
    /\ UNCHANGED <<criteria, iteration, events_collected, events_scanned, api_calls_made,
                   backend_calls, errors, response, raw_events_received,
                   responses_received, hvars, evars, mvars>>

\* What a filter_log_events call raises: TimeoutError of filter_logs' own
\* wait_for, the client's ValueError for its inner timeout, or anything else.
CallExceptions ==
    {"TimeoutError", "ValueError: CloudWatch API call timed out",
     "ValueError: Log group not found", "Exception"}

CallTimedOut(exception) ==
    exception \in {"TimeoutError", "ValueError: CloudWatch API call timed out"}

\* The handlers of the call's try: the entry appended to errors.
filter_log_events_except_silent(errs, exception) == errs
filter_log_events_except(errs, exception) ==
    IF exception = "TimeoutError" THEN Append(errs, "API call timed out")
    ELSE Append(errs, "API call failed: " \o exception)

\* One iteration whose filter_log_events call raises.  The loop breaks and
\* the result is created.
FilterLogEventsRaises ==
    /\ fpc = "loop"
    /\ \E exception \in CallExceptions :
          errors' = filter_log_events_except(errors, exception)
    /\ backend_calls' = backend_calls + 1
    /\ fret' = Some(_create_result(events_collected, events_scanned, api_calls_made,
                                   next_token, fwarnings, errors'))
    /\ fpc' = "done"
    /\ UNCHANGED <<criteria, target_streams, iteration, next_token, events_collected,
                   events_scanned, api_calls_made, describe_outcome, fwarnings, response,
                   raw_events_received, responses_received, group_streams, hvars, evars,
                   mvars>>

\* One iteration whose filter_log_events call returns a response (lines 111-169),
\* up to the next call or to the return.
FilterLogEventsReturns ==
    /\ fpc = "loop"
    /\ \E r \in Responses :
          LET page == convert_events(r.events, events_collected, criteria.max_events)
              stop == \/ enough_events_collected(page.events_collected)
                      \/ ~token_truthy(r.nextToken)
                      \/ range_exhausted(iteration)
          IN
          /\ response' = Some(r)
          /\ backend_calls' = backend_calls + 1
          /\ api_calls_made' = api_calls_made + 1
          /\ raw_events_received' = raw_events_received + Len(r.events)
          /\ responses_received' = responses_received + 1
          /\ events_scanned' = scanned_after(events_scanned, r.events)
          /\ events_collected' = page.events_collected
          /\ next_token' = IF page.raised \/ enough_events_collected(page.events_collected)
                           THEN next_token ELSE r.nextToken
          /\ IF page.raised
             THEN /\ fret' = Some(filter_logs_except(events_collected', events_scanned',
                                      api_calls_made', target_streams, fwarnings, errors))
                  /\ fpc' = "done"
                  /\ UNCHANGED iteration
             ELSE IF stop
             THEN /\ fret' = Some(_create_result(events_collected', events_scanned',
                                      api_calls_made', next_token', fwarnings, errors))
                  /\ fpc' = "done"
                  /\ UNCHANGED iteration
             ELSE /\ iteration' = iteration + 1
                  /\ UNCHANGED <<fret, fpc>>
    /\ UNCHANGED <<criteria, target_streams, describe_outcome, group_streams, errors,
                   fwarnings, hvars, evars, mvars>>

\* tools/filter_logs.py, the response built from the QueryResults: one entry
\* for each event and the statistics.
filter_pki_audit_events_response(results) ==
    [success |-> TRUE, error_code |-> "",
     events |-> [k \in 1..Len(results.events) |-> "event_data"],
     statistics |-> [events_scanned |-> results.events_scanned,
                     events_matched |-> results.events_matched,
                     api_calls_made |-> results.api_calls_made]]

\* filter_pki_audit_events from "results = await log_filter.filter_logs(criteria)"
\* to its return.  filter_logs returns on every path, so the tool's except
\* clauses are not entered from here.
FilterPkiAuditEventsReturns ==
    /\ fpc = "done" /\ fret # None
    /\ tool_response = None
    /\ tool_response' = Some(filter_pki_audit_events_response(fret[1]))
    /\ UNCHANGED <<event_data, match_criteria, process_result, matched, criteria_args,
                   constructed, hvars, evars, fvars>>

InitFilter == HIdle /\ EIdle /\ FInit /\ MIdle
NextFilter ==
    \/ GetTargetStreams
    \/ FilterLogEventsRaises
    \/ FilterLogEventsReturns
    \/ FilterPkiAuditEventsReturns
\* The event loop resumes the coroutine, and wait_for bounds each call's wait.
SpecFilter == InitFilter /\ [][NextFilter]_vars /\ WF_vars(NextFilter)

(***************************************************************************)
(* Claims about filter_logs.                                               *)
(***************************************************************************)
FilterDone == fpc = "done" /\ fret # None

\* C9: filter_logs always terminates: whatever the backend answers, it issues
\* at most 100 filter_log_events calls and then returns a QueryResults.
C9_Terminates ==
    /\ [](backend_calls <= max_iterations)
    /\ <>[]FilterDone

\* A hundred empty pages with a nextToken, then the return.
C9_Witness ==
    /\ FilterDone
    /\ backend_calls = max_iterations
    /\ events_scanned = 0
    /\ token_truthy(fret[1].next_token)

\* C10: no backend call follows a response from which an event was collected
\* or a response without nextToken; collection stops at max_events, so the
\* result holds at most criteria.max_events events.
C10_StopsPaginating ==
    /\ [][backend_calls' > backend_calls =>
            (response # None =>
                /\ events_collected = 0
                /\ token_truthy(response[1].nextToken))]_vars
    /\ [](events_collected <= criteria.max_events)
    /\ [](fret # None => Len(fret[1].events) <= criteria.max_events)

\* A second page holds more events than max_events: collection stops at the cap.
C10_Witness ==
    /\ FilterDone
    /\ backend_calls = 2
    /\ Len(response[1].events) > criteria.max_events
    /\ Len(fret[1].events) = criteria.max_events
    /\ token_truthy(response[1].nextToken)

\* The entries of errors that record a timed-out call.
TimeoutEntries ==
    {filter_log_events_except(<<>>, exception)[1] : exception \in {e \in CallExceptions : CallTimedOut(e)}}

\* This step is a filter_log_events call that raised, and what the handler
\* recorded is a timeout.
CallTimesOutStep ==
    /\ backend_calls' = backend_calls + 1
    /\ api_calls_made' = api_calls_made
    /\ errors' # errors => errors'[Len(errors')] \in TimeoutEntries

\* C11: when a filter_log_events call times out, filter_logs does not raise:
\* it returns a QueryResults whose errors list is not empty and whose events
\* are the events accumulated before the timeout, and no backend call follows.
C11_TimeoutIsNotFatal ==
    /\ [][CallTimesOutStep =>
            /\ fpc' = "done"
            /\ fret' # None
            /\ Len(fret'[1].errors) >= 1
            /\ fret'[1].events = all_events(events_collected)]_vars
    /\ [][fpc = "done" => backend_calls' = backend_calls]_vars

\* The third call times out after two empty pages.
C11_Witness ==
    /\ FilterDone
    /\ backend_calls = 3
    /\ api_calls_made = 2
    /\ Len(errors) = 1
    /\ errors[1] \in TimeoutEntries
    /\ fret[1].errors = errors

(***************************************************************************)
(* Claims about the parser and the hierarchy.                              *)
(***************************************************************************)
\* The certificate tasks of build_hierarchy to which read_certificate gave a
\* body that x509 cannot parse: the task has called parse_pem_safe on it.
UnparsableReads ==
    {i \in 1..Len(cresp) : /\ builder = "hierarchy"
                           /\ cresp[i] # None
                           /\ cresp[i][1].kind = "data"
                           /\ cresp[i][1].certificate # None
                           /\ ~cresp[i][1].certificate[1].parses}

\* C12: parse_pem_safe never fails: for a body that cannot be parsed it
\* returns a degraded Certificate with subject_cn = issuer_cn = "Unknown",
\* not_before = not_after = now, is_expired = true, and the caller's serial,
\* issuer id and revocation preserved.
C12_Original ==
    \A i \in UnparsableReads :
        LET r == cresp[i][1]
            cert == parse_pem_safe(r.certificate[1], serial_numbers[i], r.issuer_id,
                                   r.revocation_time)
        IN /\ ~cert.raised
           /\ cert.value[1].subject_cn = "Unknown"
           /\ cert.value[1].issuer_cn = "Unknown"
           /\ cert.value[1].not_before = 0
           /\ cert.value[1].not_after = 0
           /\ cert.value[1].is_expired
           /\ cert.value[1].serial_number = serial_numbers[i]
           /\ cert.value[1].issuer_id = r.issuer_id
           /\ cert.value[1].is_revoked = RevocationIsNotNone(r.revocation_time)

\* build_hierarchy has returned a hierarchy for a mount that lists at least
\* one certificate.
HierarchyReturned ==
    /\ HierarchyDone
    /\ ret.status = "returned"
    /\ serial_numbers # <<>>

\* C13: a hierarchy that build_hierarchy returns for a mount with at least
\* one listed certificate has at least one root group or at least one
\* warning.
C13_Original ==
    HierarchyReturned => (ret.root_issuers # <<>> \/ ret.warnings # <<>>)

(***************************************************************************)
(* _organize_into_hierarchy on its own: the call's arguments are drawn     *)
(* from the valid Certificate and Issuer objects below.                    *)
(***************************************************************************)
\* <<subject CN, issuer CN>> of the certificates; the fourth is self-signed.
OrganizeCertificateNames ==
    {<<"leaf", "Root CA">>, <<"web", "Int CA">>, <<"lost", "Other CA">>,
     <<"Self CA", "Self CA">>, <<"leaf2", "Root B">>, <<"api", "Int B">>}

\* <<issuer CN, issuer type>> of the issuers.
OrganizeIssuerNames ==
    {<<"Root CA", "root">>, <<"Root B", "root">>, <<"Int CA", "intermediate">>,
     <<"Int B", "intermediate">>}

\* The k-th certificate of the list: serials are distinct.
OrganizeCertificate(k, name) ==
    Certificate(ToString(k), name[1], name[2], None, -2, 1, FALSE, FALSE).value[1]

\* The k-th value of the issuer map: issuer ids are the map's keys.
OrganizeIssuer(k, name) ==
    Issuer(ToString(k), name[1], name[2], <<name[1]>>).value[1]

InitOrganize ==
    /\ EIdle
    /\ FIdle
    /\ MIdle
    /\ vault = None
    /\ builder = "organize"
    /\ hpc = "organize"
    /\ \E n \in 0..MaxOrganizeCertificates :
          \E names \in [1..n -> OrganizeCertificateNames] :
              certificates = [k \in 1..n |-> OrganizeCertificate(k, names[k])]
    /\ \E n \in 0..MaxOrganizeIssuers :
          \E names \in [1..n -> OrganizeIssuerNames] :
              issuers = [k \in 1..n |-> OrganizeIssuer(k, names[k])]
    /\ warnings \in {<<>>, <<Warning("parse_error", "cert", "9", "error reading", 0)>>}
    /\ serial_numbers = <<>>
    /\ ctask = <<>>
    /\ cresp = <<>>
    /\ cresults = <<>>
    /\ cert_warnings = <<>>
    /\ completion_order = <<>>
    /\ semaphore_cert = 0
    /\ issuer_ids = <<>>
    /\ itask = <<>>
    /\ iresp = <<>>
    /\ iresults = <<>>
    /\ issuer_warnings = <<>>
    /\ semaphore_issuer = 0
    /\ calls = <<>>
    /\ list_outcome = <<>>
    /\ ret = None

\* root_groups = self._organize_into_hierarchy(certificates, issuers, warnings):
\* the call returns the root groups and appends to the warnings list.
OrganizeIntoHierarchy ==
    /\ hpc = "organize"
    /\ LET org == _organize_into_hierarchy(certificates, issuers, warnings) IN
          /\ ret' = Some(org.root_groups)
          /\ warnings' = org.warnings
    /\ hpc' = "done"
    /\ UNCHANGED <<vault, builder, serial_numbers, ctask, cresp, cresults, cert_warnings, completion_order,
                   semaphore_cert, issuer_ids, itask, iresp, iresults, issuer_warnings,
                   semaphore_issuer, certificates, issuers, calls, list_outcome>>
    /\ UNCHANGED <<evars, fvars, mvars>>

NextOrganize == OrganizeIntoHierarchy
SpecOrganize == InitOrganize /\ [][NextOrganize]_vars

(***************************************************************************)
(* Claims about _organize_into_hierarchy.                                  *)
(***************************************************************************)
\* The root CNs the call knows: those of the root issuers, or, without any
\* issuer, the issuer CNs of self-signed certificates.
KnownRootCns ==
    IF issuers # <<>>
    THEN {issuers[k].issuer_cn : k \in {j \in 1..Len(issuers) : issuers[j].issuer_type = "root"}}
    ELSE {certificates[k].issuer_cn :
             k \in {j \in 1..Len(certificates) :
                       certificates[j].subject_cn = certificates[j].issuer_cn}}

KnownIntermediateCns ==
    {issuers[k].issuer_cn : k \in {j \in 1..Len(issuers) : issuers[j].issuer_type # "root"}}

\* The certificates whose issuer CN is no known root's and no known intermediate's.
UnresolvedCertificates ==
    {certificates[k] :
        k \in {j \in 1..Len(certificates) :
                  certificates[j].issuer_cn \notin KnownRootCns \cup KnownIntermediateCns}}

UnknownRootGroups(groups) == SelectSeq(groups, LAMBDA g : g.root_cn = "Unknown Root")

OrganizeReturns == builder = "organize" /\ hpc = "organize" /\ hpc' = "done"

\* C14: the call produces an "Unknown Root" group exactly when some
\* certificate's issuer CN is no known root's and no known intermediate's;
\* the group's direct certificates are exactly those certificates and exactly
\* one missing_issuer warning stating their count is appended; otherwise
\* there is no such group and no warning is appended.
C14_UnknownRoot ==
    [][OrganizeReturns =>
          LET unknown == UnknownRootGroups(ret'[1]) IN
          IF UnresolvedCertificates # {}
          THEN /\ Len(unknown) = 1
               /\ SeqToSet(unknown[1].direct_certificates) = UnresolvedCertificates
               /\ Len(unknown[1].direct_certificates) = Cardinality(UnresolvedCertificates)
               /\ warnings' = Append(warnings,
                                 Warning("missing_issuer", "certificates", "",
                                         "unresolvable issuers",
                                         Cardinality(UnresolvedCertificates)))
          ELSE /\ unknown = <<>>
               /\ warnings' = warnings]_vars

\* One certificate of an unknown issuer next to one of a known root, with a
\* known intermediate and an earlier warning.
C14_Witness ==
    /\ builder = "organize"
    /\ hpc = "done"
    /\ Cardinality(UnresolvedCertificates) = 1
    /\ Len(certificates) = 2
    /\ KnownRootCns # {}
    /\ KnownIntermediateCns # {}
    /\ Len(UnknownRootGroups(ret[1])) = 1
    /\ Len(ret[1]) = 2
    /\ Len(warnings) = 2
    /\ warnings[2].type = "missing_issuer"

OrganizeDone == builder = "organize" /\ hpc = "done"

\* The certificates a CA issued, in list order.
IssuedBy(cn) == SelectSeq(certificates, LAMBDA c : c.issuer_cn = cn)

\* C15: in a hierarchy with at least one root CA, every intermediate issuer
\* that has a certificate is an intermediate group under the first root
\* group, and every other root group has no intermediate group.
C15_FirstRootHoldsIntermediates ==
    (OrganizeDone /\ KnownRootCns # {}) =>
        /\ \A cn \in KnownIntermediateCns :
              IssuedBy(cn) # <<>> =>
                  \E k \in 1..Len(ret[1][1].intermediate_groups) :
                      /\ ret[1][1].intermediate_groups[k].intermediate_cn = cn
                      /\ ret[1][1].intermediate_groups[k].certificates = IssuedBy(cn)
        /\ \A k \in 2..Len(ret[1]) : ret[1][k].intermediate_groups = <<>>

\* Two roots and an intermediate that issued both certificates.
C15_Witness ==
    /\ OrganizeDone
    /\ Cardinality(KnownRootCns) = 2
    /\ Cardinality({cn \in KnownIntermediateCns : IssuedBy(cn) # <<>>}) = 1
    /\ Len(ret[1]) = 2
    /\ Len(ret[1][1].intermediate_groups) = 1
    /\ Len(ret[1][1].intermediate_groups[1].certificates) = 2
    /\ ret[1][2].intermediate_groups = <<>>

(***************************************************************************)
(* services/pattern_matcher.py: process_log_event and its stages.          *)
(***************************************************************************)
WordCharacters == Uppercase \o "abcdefghijklmnopqrstuvwxyz" \o Digits \o "_"

\* re.search of \bword\b in s.
word_search(word, s) ==
    \E i \in Occurrences(s, word) :
        /\ i = 1 \/ ~str_in(Char(s, i - 1), WordCharacters)
        /\ i + Len(word) > Len(s) \/ ~str_in(Char(s, i + Len(word)), WordCharacters)

\* LOG_LEVEL_PATTERNS, in dict order.  The bracketed alternatives of each
\* pattern match only where a bare one does.
LOG_LEVEL_PATTERNS ==
    << [level |-> "ERROR", words |-> {"ERROR", "error", "Error"}],
       [level |-> "WARN", words |-> {"WARN", "warn", "Warn", "WARNING", "warning", "Warning"}],
       [level |-> "INFO", words |-> {"INFO", "info", "Info"}],
       [level |-> "DEBUG", words |-> {"DEBUG", "debug", "Debug"}] >>

\* The detected level, <<>> for None.
extract_log_level(msg) ==
    LET hits == {k \in 1..Len(LOG_LEVEL_PATTERNS) :
                    \E w \in LOG_LEVEL_PATTERNS[k].words : word_search(w, msg)}
    IN IF hits = {} THEN None ELSE Some(LOG_LEVEL_PATTERNS[SetMin(hits)].level)

matches_text_pattern(msg, pattern) ==
    IF pattern = "" THEN TRUE ELSE str_in(lower(pattern), lower(msg))

\* compiled_regex of a literal pattern, compiled with re.IGNORECASE.
matches_regex_pattern(msg, compiled_regex) ==
    IF compiled_regex = "" THEN TRUE ELSE str_in(lower(compiled_regex), lower(msg))

matches_log_levels(detected_level, target_levels) ==
    IF target_levels = <<>> THEN TRUE
    ELSE detected_level # None /\ detected_level[1] \in SeqToSet(target_levels)

\* FilterCriteria as the matcher reads it.  "" stands for a pattern that is
\* None or empty, <<>> for log_levels None or empty.  The dataclass declares
\* no field compound_expression.
MatcherCriteria(text_pattern, log_levels, regex_pattern) ==
    [text_pattern |-> text_pattern, log_levels |-> log_levels, compiled_regex |-> regex_pattern]

\* The same object after a caller has set the attribute on it.
WithCompoundExpression(c, expr) ==
    [text_pattern |-> c.text_pattern, log_levels |-> c.log_levels,
     compiled_regex |-> c.compiled_regex, compound_expression |-> expr]

\* criteria.compound_expression: AttributeError when the object has none.
compound_expression_of(c) ==
    IF "compound_expression" \in DOMAIN c THEN Returned(c.compound_expression) ELSE Raised

\* The stages before the compound expression: TRUE when one of them fails.
early_stage_fails(msg, log_level, c) ==
    \/ c.text_pattern # "" /\ ~matches_text_pattern(msg, c.text_pattern)
    \/ c.log_levels # <<>> /\ ~matches_log_levels(log_level, c.log_levels)
    \/ c.compiled_regex # "" /\ ~matches_regex_pattern(msg, c.compiled_regex)

_matches_criteria_fast(msg, log_level, c) ==
    IF early_stage_fails(msg, log_level, c) THEN Returned(FALSE)
    ELSE LET expr == compound_expression_of(c) IN
         IF expr.raised THEN Raised
         ELSE Returned(expr.value[1] = ""
                          \/ matches_compound_expression(msg, expr.value[1]))

\* The raw event: message is <<>> when the key is missing; timestamp is
\* "ok", "missing" (KeyError) or "malformed" (not a number, TypeError).
RawEvent(msg, timestamp) == [message |-> msg, timestamp |-> timestamp]

LogEvent(msg, log_level) == [message |-> msg, log_level |-> log_level]

\* Lines 202-219: TRUE when a keyword check returns None.
process_log_event_skips(msg, expr) ==
    \/ str_in("pki_int/issue", expr) /\ ~str_in("pki_int/issue", msg)
    \/ str_in("entity_id", expr) /\ ~str_in("entity_id", msg)
    \/ /\ str_in("operation", expr)
       /\ str_in("update", expr)
       /\ ~str_in("\"operation\":\"update\"", msg)
       /\ ~str_in("\"operation\": \"update\"", msg)
       /\ ~str_in("operation\":\"update", msg)

\* Returned(<<>>) is None, Returned(<<e>>) the LogEvent e.
process_log_event(event, c) ==
    LET msg == IF event.message = None THEN "" ELSE event.message[1]
        expr == compound_expression_of(c)
    IN IF expr.raised THEN Raised
       ELSE IF expr.value[1] # "" /\ process_log_event_skips(msg, expr.value[1])
       THEN Returned(None)
       ELSE IF event.timestamp # "ok" THEN Raised
       ELSE LET log_level == extract_log_level(msg)
                m == _matches_criteria_fast(msg, log_level, c)
            IN IF m.raised THEN Raised
               ELSE IF ~m.value[1] THEN Returned(None)
               ELSE Returned(Some(LogEvent(msg, log_level)))

EventMessages ==
    { "ERROR disk full",
      "Warning: disk almost full",
      "errors everywhere",
      "{\"a\":1,\"b\":9,\"c\":3}" }

RawEvents ==
    {RawEvent(msg, timestamp) :
        msg \in {None} \cup {Some(m) : m \in EventMessages},
        timestamp \in {"ok", "missing", "malformed"}}

\* Criteria objects FilterCriteria's constructor accepts (log_levels come
\* out of __post_init__ upper-cased and valid).
ConstructedCriteria ==
    {MatcherCriteria(text_pattern, log_levels, regex_pattern) :
        text_pattern \in {"", "disk", "DISK FULL"},
        log_levels \in {<<>>, <<"ERROR">>, <<"WARN", "INFO">>},
        regex_pattern \in {"", "full"}}

CompoundExpressions == {"", "$.a = 1", "$.a = 2"}

AllCriteria ==
    ConstructedCriteria
        \cup {WithCompoundExpression(c, expr) : c \in ConstructedCriteria, expr \in CompoundExpressions}

InitEvent ==
    /\ HIdle /\ EIdle /\ FIdle
    /\ \E event \in RawEvents : event_data = Some(event)
    /\ \E c \in AllCriteria : match_criteria = Some(c)
    /\ process_result = None
    /\ matched = None
    /\ tool_response = None
    /\ criteria_args = None
    /\ constructed = None

ProcessLogEvent ==
    /\ event_data # None /\ match_criteria # None
    /\ process_result = None
    /\ process_result' = Some(process_log_event(event_data[1], match_criteria[1]))
    /\ UNCHANGED <<event_data, match_criteria, matched, tool_response, criteria_args,
                   constructed, hvars, evars, fvars>>

\* The call of line 231: the message and the level extracted from it.
MatchesCriteriaFast ==
    /\ event_data # None /\ match_criteria # None
    /\ event_data[1].message # None
    /\ matched = None
    /\ LET msg == event_data[1].message[1] IN
       matched' = Some(_matches_criteria_fast(msg, extract_log_level(msg), match_criteria[1]))
    /\ UNCHANGED <<event_data, match_criteria, process_result, tool_response, criteria_args,
                   constructed, hvars, evars, fvars>>

NextEvent == ProcessLogEvent \/ MatchesCriteriaFast

SpecEvent == InitEvent /\ [][NextEvent]_vars

\* C16: process_log_event never raises: for every raw event and every
\* criteria object it returns a LogEvent or None.
C16_Original ==
    process_result # None => ~process_result[1].raised

\* The criteria of the claim C17 that are present all match the message.
EveryPresentCriterionMatches(msg, c) ==
    /\ c.text_pattern # "" => matches_text_pattern(msg, c.text_pattern)
    /\ c.log_levels # <<>> => matches_log_levels(extract_log_level(msg), c.log_levels)
    /\ c.compiled_regex # "" => matches_regex_pattern(msg, c.compiled_regex)
    /\ ("compound_expression" \in DOMAIN c /\ c.compound_expression # "")
          => matches_compound_expression(msg, c.compound_expression)

\* C17: _matches_criteria_fast returns true exactly when every criterion
\* that is present matches the message, an absent criterion always passing.
C17_Original ==
    matched # None =>
        matched[1] = Returned(EveryPresentCriterionMatches(event_data[1].message[1],
                                                           match_criteria[1]))

ListCertificatesAnswered == builder = "simplified" /\ tool_response # None

\* C18: when the listing of the mount's certificates fails with permission
\* denied the list_certificates tool answers an error with code
\* PERMISSION_ERROR, when it fails with a connection failure the code is
\* VAULT_CONNECTION_ERROR; in both cases the error carries a message and a
\* details map.
C18_Original ==
    (ListCertificatesAnswered /\ ListFailed(list_outcome.certs)) =>
        /\ tool_response[1].is_error
        /\ tool_response[1].code =
              (IF list_outcome.certs = "perm" THEN "PERMISSION_ERROR"
               ELSE "VAULT_CONNECTION_ERROR")
        /\ tool_response[1].message # ""
        /\ tool_response[1].details # {}

\* The log group is unreachable: resolving its streams failed, or the first
\* filter_log_events call failed otherwise than by a timeout.
LogGroupUnreachable ==
    \/ describe_outcome = "raised"
    \/ /\ backend_calls = 1 /\ api_calls_made = 0
       /\ errors # <<>> /\ errors[Len(errors)] \notin TimeoutEntries

FilterPkiAuditEventsAnswered == fpc = "done" /\ tool_response # None

\* C19: when the log group is unreachable the filter operation is fatal:
\* filter_pki_audit_events answers success = false with an error_code, and
\* never success = true with zero events.
C19_Original ==
    (FilterPkiAuditEventsAnswered /\ LogGroupUnreachable) =>
        /\ ~tool_response[1].success
        /\ tool_response[1].error_code # ""
        /\ ~(tool_response[1].success /\ tool_response[1].events = <<>>)

(***************************************************************************)
(* fetch_single_certificate of the simplified builder on its own: the      *)
(* record of one certificate, for a range of times left until not-after.   *)
(* Times are whole seconds relative to now.                                *)
(***************************************************************************)
NotAfterSeconds ==
    {-86400, -1}
        \cup {d * 86400 + h * 3600 + m * 60 + x :
                 d \in 0..MaxExpiryDays, h \in {0, 1, 23}, m \in {0, 1, 59}, x \in {0, 59}}

InitExpiry ==
    /\ EIdle
    /\ FIdle
    /\ MIdle
    /\ vault = None
    /\ builder = "expiry"
    /\ hpc = "expiry"
    /\ serial_numbers = <<"aa:bb">>
    /\ \E na \in NotAfterSeconds, rev \in {"absent", "zero", "positive"} :
          cresp = <<Some(CertData(Some(Pem("web", "Root CA", na - 1, na)), rev, Some("1")))>>
    /\ ctask = <<>>
    /\ cresults = <<>>
    /\ cert_warnings = <<>>
    /\ completion_order = <<>>
    /\ semaphore_cert = 0
    /\ issuer_ids = <<>>
    /\ itask = <<>>
    /\ iresp = <<>>
    /\ iresults = <<>>
    /\ issuer_warnings = <<>>
    /\ semaphore_issuer = 0
    /\ warnings = <<>>
    /\ certificates = <<>>
    /\ issuers = <<>>
    /\ calls = <<>>
    /\ list_outcome = <<>>
    /\ ret = None

\* The record fetch_single_certificate returns for the certificate read.
SimplifyCertificate ==
    /\ hpc = "expiry"
    /\ certificates' = <<simplified_certificate(serial_numbers[1], cresp[1][1],
                                                cresp[1][1].issuer_id, issuers)>>
    /\ hpc' = "done"
    /\ UNCHANGED <<vault, builder, serial_numbers, ctask, cresp, cresults, cert_warnings, completion_order,
                   semaphore_cert, issuer_ids, itask, iresp, iresults, issuer_warnings,
                   semaphore_issuer, warnings, issuers, calls, list_outcome, ret>>
    /\ UNCHANGED <<evars, fvars, mvars>>

\* What HierarchyBuilder's fetch_single_certificate returns for the same read.
ParseCertificate ==
    /\ builder = "expiry"
    /\ cresults = <<>>
    /\ cresults' = <<fetch_single_certificate(serial_numbers[1], cresp[1][1]).result>>
    /\ UNCHANGED <<vault, builder, hpc, serial_numbers, ctask, cresp, cert_warnings,
                   completion_order, semaphore_cert, issuer_ids, itask, iresp, iresults,
                   issuer_warnings, semaphore_issuer, warnings, certificates, issuers,
                   calls, list_outcome, ret>>
    /\ UNCHANGED <<evars, fvars, mvars>>

NextExpiry == SimplifyCertificate \/ ParseCertificate
SpecExpiry == InitExpiry /\ [][NextExpiry]_vars

ExpiryDone == builder = "expiry" /\ hpc = "done"

\* Whole seconds left until not-after; negative when the certificate is expired.
SecondsRemaining == cresp[1][1].certificate[1].not_after

HoursMinutes(sec) ==
    ToString(sec \div 3600) \o "h " \o ToString((sec % 3600) \div 60) \o "m"

RECURSIVE upper(_)
\* str.upper on ASCII text.
upper(s) ==
    IF s = "" THEN ""
    ELSE (IF str_in(Head(s), "abcdefghijklmnopqrstuvwxyz")
          THEN Char(Uppercase, SetMin(Occurrences("abcdefghijklmnopqrstuvwxyz", Head(s))))
          ELSE Head(s)) \o upper(Tail(s))

\* A datetime: seconds, and whether it carries a tzinfo.  The tool parses
\* "2023-10-22T10:00:00Z" into an aware value and a Unix timestamp, or an
\* ISO text without offset, into a naive one.
Datetime(t, aware) == [t |-> t, aware |-> aware]

\* a >= b on datetime: TypeError between a naive and an aware value.
datetime_ge(a, b) ==
    IF a.aware # b.aware THEN Raised ELSE Returned(a.t >= b.t)

\* re.compile of the patterns of the model: an unclosed group or set is an
\* re.error.
re_compile_fails(pattern) ==
    \/ Cardinality(Occurrences(pattern, "(")) # Cardinality(Occurrences(pattern, ")"))
    \/ Cardinality(Occurrences(pattern, "[")) # Cardinality(Occurrences(pattern, "]"))

valid_levels == {"ERROR", "WARN", "INFO", "DEBUG"}

max_events_rejected(max_events) == max_events <= 0 \/ max_events > 10000

ConstructorRaised(e) == [raised |-> TRUE, error |-> e, value |-> None]
ConstructorReturned(c) == [raised |-> FALSE, error |-> "", value |-> Some(c)]

\* FilterCriteria(**a): the checks of __post_init__ in their order.  "" is an
\* empty or missing text, <<>> a missing time or an empty or missing list.
FilterCriteria__post_init__(a) ==
    LET ge == datetime_ge(a.start_time[1], a.end_time[1])
        levels == [k \in 1..Len(a.log_levels) |-> upper(a.log_levels[k])]
    IN IF a.log_group_name = "" THEN ConstructorRaised("ValueError")
       ELSE IF a.start_time # None /\ a.end_time # None /\ ge.raised
       THEN ConstructorRaised("TypeError")
       ELSE IF a.start_time # None /\ a.end_time # None /\ ge.value[1]
       THEN ConstructorRaised("ValueError")
       ELSE IF a.regex_pattern # "" /\ re_compile_fails(a.regex_pattern)
       THEN ConstructorRaised("ValueError")
       ELSE IF SeqToSet(levels) \ valid_levels # {} THEN ConstructorRaised("ValueError")
       ELSE IF max_events_rejected(a.max_events) THEN ConstructorRaised("ValueError")
       ELSE ConstructorReturned(
                [log_group_name |-> a.log_group_name, start_time |-> a.start_time,
                 end_time |-> a.end_time, regex_pattern |-> a.regex_pattern,
                 compiled_regex |-> a.regex_pattern, log_levels |-> levels,
                 max_events |-> a.max_events])

Datetimes == {None} \cup {Some(Datetime(t, aware)) : t \in 1..2, aware \in BOOLEAN}

CriteriaArguments ==
    [log_group_name : {"", "g"},
     start_time : Datetimes,
     end_time : Datetimes,
     regex_pattern : {"", "full", "(full"},
     log_levels : {<<>>, <<"warn", "Info">>, <<"ERROR", "trace">>},
     max_events : {0, 1, 10000, 10001}]

InitCriteria ==
    /\ HIdle /\ EIdle /\ FIdle
    /\ event_data = None
    /\ match_criteria = None
    /\ process_result = None
    /\ matched = None
    /\ tool_response = None
    /\ \E a \in CriteriaArguments : criteria_args = Some(a)
    /\ constructed = None

ConstructFilterCriteria ==
    /\ criteria_args # None
    /\ constructed = None
    /\ constructed' = Some(FilterCriteria__post_init__(criteria_args[1]))
    /\ UNCHANGED <<event_data, match_criteria, process_result, matched, tool_response,
                   criteria_args, hvars, evars, fvars>>

NextCriteria == ConstructFilterCriteria
SpecCriteria == InitCriteria /\ [][NextCriteria]_vars

\* The cases in which the claim C21 has the constructor fail.
RejectedArguments(a) ==
    \/ a.log_group_name = ""
    \/ a.start_time # None /\ a.end_time # None /\ a.start_time[1].t >= a.end_time[1].t
    \/ a.regex_pattern # "" /\ re_compile_fails(a.regex_pattern)
    \/ \E k \in 1..Len(a.log_levels) : upper(a.log_levels[k]) \notin valid_levels
    \/ a.max_events <= 0 \/ a.max_events > 10000

\* C21: constructing a FilterCriteria fails with ValueError exactly in the
\* listed cases and accepts otherwise; every constructed FilterCriteria has
\* 1 <= max_events <= 10000 and upper-case valid levels.
C21_Original ==
    constructed # None =>
        /\ RejectedArguments(criteria_args[1])
              => (constructed[1].raised /\ constructed[1].error = "ValueError")
        /\ ~RejectedArguments(criteria_args[1]) => ~constructed[1].raised
        /\ ~constructed[1].raised =>
              /\ constructed[1].value[1].max_events \in 1..10000
              /\ SeqToSet(constructed[1].value[1].log_levels) \subseteq valid_levels

\* C22: every QueryResults filter_logs returns has events_scanned equal to
\* the number of raw events in all responses received, events_matched equal
\* to the number of its events and at most events_scanned, and
\* api_calls_made equal to the number of filter_log_events calls that
\* returned a response, between 0 and 100.
C22_Statistics ==
    FilterDone =>
        /\ fret[1].events_scanned = raw_events_received
        /\ fret[1].events_matched = Len(fret[1].events)
        /\ fret[1].events_matched <= fret[1].events_scanned
        /\ fret[1].api_calls_made = responses_received
        /\ fret[1].api_calls_made \in 0..max_iterations

\* Two responses, the first without events; three raw events, one returned.
C22_Witness ==
    /\ FilterDone
    /\ responses_received = 2
    /\ raw_events_received = 3
    /\ fret[1].api_calls_made = 2
    /\ fret[1].events_scanned = 3
    /\ fret[1].events_matched = 1

\* A build call that returned a result after the certificate fan-out.
BuildReturned ==
    /\ builder \in {"hierarchy", "simplified"}
    /\ hpc = "done"
    /\ ret.status = "returned"

\* The fetch tasks that returned a certificate.
FetchedTasks == {i \in 1..Len(cresults) : cresults[i] # None}

FlaggedExpired(c) == IF builder = "hierarchy" THEN c.is_expired ELSE c.expired = "yes"
FlaggedRevoked(c) == IF builder = "hierarchy" THEN c.is_revoked ELSE c.revoked = "yes"

\* C23: in the result of both builders metadata.total_certificates is the
\* number of certificates successfully fetched, expired_count the number of
\* those flagged expired and revoked_count the number flagged revoked,
\* whatever the number of failed fetches.
C23_Metadata ==
    BuildReturned =>
        /\ ret.metadata.total_certificates = Cardinality(FetchedTasks)
        /\ ret.metadata.expired_count =
              Cardinality({i \in FetchedTasks : FlaggedExpired(cresults[i][1])})
        /\ ret.metadata.revoked_count =
              Cardinality({i \in FetchedTasks : FlaggedRevoked(cresults[i][1])})
        /\ ret.metadata.expired_count <= ret.metadata.total_certificates
        /\ ret.metadata.revoked_count <= ret.metadata.total_certificates

\* build_hierarchy with one failed fetch, one certificate that is not expired
\* and not revoked.
C23_Witness ==
    /\ BuildReturned
    /\ builder = "hierarchy"
    /\ Len(serial_numbers) = 2
    /\ Cardinality(FetchedTasks) = 1
    /\ ret.metadata.total_certificates = 1
    /\ ret.metadata.expired_count = 0
    /\ ret.metadata.revoked_count = 0

\* The criteria name no stream and describe_log_streams has answered.
StreamsResolved ==
    /\ criteria # None /\ criteria.log_stream_names = <<>>
    /\ describe_outcome = "returned"

\* The first ten streams of the group, in the order of the listing.
FirstTenStreams == SubSeq(group_streams, 1, IF Len(group_streams) < 10 THEN Len(group_streams) ELSE 10)

\* C24: when the criteria name no explicit streams, the target set is drawn
\* from at most 10 streams ordered by last event time and holds exactly
\* those whose last event is within the last 7 days or not recorded; if
\* that set is empty no filter_log_events call is issued and the result is
\* empty (0 events, 0 API calls) with a warning.
C24_TargetStreams ==
    StreamsResolved =>
        /\ SeqToSet(target_streams) =
              {FirstTenStreams[k].log_stream_name :
                  k \in {j \in 1..Len(FirstTenStreams) :
                            FirstTenStreams[j].last_event_time \in {"recent", "none"}}}
        /\ Len(target_streams) <= 10
        /\ target_streams = <<>> =>
              /\ backend_calls = 0
              /\ FilterDone
              /\ fret[1].events = <<>>
              /\ fret[1].api_calls_made = 0
              /\ fret[1].warnings # <<>>

\* A group of eleven streams, every third one old: of the first ten, seven
\* are targeted.
C24_Witness ==
    /\ StreamsResolved
    /\ Len(group_streams) > 10
    /\ group_streams[3].last_event_time = "old"
    /\ group_streams[2].last_event_time = "none"
    /\ Len(target_streams) = 7
    /\ target_streams[3] = "s4"

(***************************************************************************)
(* SimplifiedCertificateBuilder._resolve_issuer_chain on its own.          *)
(***************************************************************************)
\* The CA chains an issuer's data may carry: the subject CNs of the chain's
\* certificates, "" for one without CN or one that does not parse.
ChainChoices(cn) ==
    {<<>>, <<cn>>, <<"Int CA", "Root CA">>, <<cn, cn>>, <<cn, "">>}

IssuerMapEntry(k, cn, is_root, chain) ==
    [issuer_id |-> ToString(k), issuer_cn |-> cn, is_root |-> is_root, ca_chain |-> chain]

IssuerMaps ==
    UNION {{[k \in 1..n |-> IssuerMapEntry(k, d[k].cn, d[k].is_root, d[k].chain)] :
               d \in [1..n -> UNION {[cn : {cn}, is_root : BOOLEAN, chain : ChainChoices(cn)] :
                                        cn \in {"Int CA", "Root CA"}}]} :
           n \in 0..MaxChainIssuers}

InitChain ==
    /\ EIdle
    /\ FIdle
    /\ MIdle
    /\ vault = None
    /\ builder = "chain"
    /\ hpc = "chain"
    /\ serial_numbers = <<>>
    /\ ctask = <<>>
    /\ cresp = <<>>
    /\ cresults = <<>>
    /\ cert_warnings = <<>>
    /\ completion_order = <<>>
    /\ semaphore_cert = 0
    /\ \E id \in {None, Some("1"), Some("2"), Some("9")} : issuer_ids = <<id>>
    /\ itask = <<>>
    /\ iresp = <<>>
    /\ iresults = <<>>
    /\ issuer_warnings = <<>>
    /\ semaphore_issuer = 0
    /\ warnings = <<>>
    /\ certificates = <<>>
    /\ issuers \in IssuerMaps
    /\ calls = <<>>
    /\ list_outcome = <<>>
    /\ ret = None

ResolveIssuerChain ==
    /\ hpc = "chain"
    /\ ret' = Some(_resolve_issuer_chain(issuer_ids[1], issuers))
    /\ hpc' = "done"
    /\ UNCHANGED <<vault, builder, serial_numbers, ctask, cresp, cresults, cert_warnings, completion_order,
                   semaphore_cert, issuer_ids, itask, iresp, iresults, issuer_warnings,
                   semaphore_issuer, warnings, certificates, issuers, calls, list_outcome>>
    /\ UNCHANGED <<evars, fvars, mvars>>

NextChain == ResolveIssuerChain
SpecChain == InitChain /\ [][NextChain]_vars

ChainDone == builder = "chain" /\ hpc = "done"

\* The entries of the map under the issuer id of the call.
IssuerEntries ==
    IF issuer_ids[1] = None THEN {}
    ELSE {k \in 1..Len(issuers) : issuers[k].issuer_id = issuer_ids[1][1]}

\* C25: _resolve_issuer_chain returns the empty list when the issuer id is
\* None or not a key of the map; otherwise the list starts with the
\* immediate issuer's CN, has at most two elements and no duplicate name.
C25_IssuerChain ==
    ChainDone =>
        IF IssuerEntries = {} THEN ret[1] = <<>>
        ELSE /\ Len(ret[1]) \in 1..2
             /\ \A k \in IssuerEntries : ret[1][1] = issuers[k].issuer_cn
             /\ Len(ret[1]) = 2 => ret[1][1] # ret[1][2]

\* An intermediate whose chain repeats its own name, and a root in the map
\* that is not consulted: the list holds the intermediate alone.
C25_Witness ==
    /\ ChainDone
    /\ issuer_ids = <<Some("1")>>
    /\ Len(issuers) = 2
    /\ issuers[1].issuer_cn = "Int CA" /\ issuers[1].ca_chain = <<"Int CA", "Int CA">>
    /\ issuers[2].issuer_cn = "Root CA" /\ issuers[2].is_root
    /\ ret[1] = <<"Int CA">>

\* The certificates held in a tree: the direct certificates of every root
\* group and the certificates of every intermediate group.
TreeCertificates(groups) ==
    Flatten([k \in 1..Len(groups) |->
                groups[k].direct_certificates
                    \o Flatten([j \in 1..Len(groups[k].intermediate_groups) |->
                                   groups[k].intermediate_groups[j].certificates])])

Occurs(seq, x) == Cardinality({k \in 1..Len(seq) : seq[k] = x})

\* C26: in every hierarchy build_hierarchy returns, each fetched certificate
\* appears in exactly one place of the tree, so the tree holds
\* metadata.total_certificates certificates.
C26_Original ==
    (HierarchyDone /\ ret.status = "returned") =>
        LET tree == TreeCertificates(ret.root_issuers) IN
        /\ \A c \in SeqToSet(certificates) \cup SeqToSet(tree) :
              Occurs(tree, c) = Occurs(certificates, c)
        /\ Len(tree) = ret.metadata.total_certificates

\* C27: in every QueryResults filter_logs returns, has_more_events is true
\* exactly when next_token is non-empty, and when the last response received
\* carried a nextToken the result's next_token is that token and
\* has_more_events is true, also when that response returned events.
C27_Original ==
    FilterDone =>
        /\ fret[1].has_more_events <=> token_truthy(fret[1].next_token)
        /\ (response # None /\ token_truthy(response[1].nextToken)) =>
              /\ fret[1].next_token = response[1].nextToken
              /\ fret[1].has_more_events

\* The position of a serial in the mount listing (the listed serials differ).
SerialPosition(serial) == CHOOSE k \in 1..Len(serial_numbers) : serial_numbers[k] = serial

InMountOrder(certs) ==
    \A a, b \in 1..Len(certs) :
        a < b => SerialPosition(certs[a].serial_number) < SerialPosition(certs[b].serial_number)

\* C28: the certificates the concurrent fan-out of either builder returns
\* stand in the order of their serials in the mount listing, in whatever
\* order the fetch tasks return.
C28_MountOrder ==
    builder \in {"hierarchy", "simplified"} =>
        /\ InMountOrder(certificates)
        /\ \A i \in FetchedTasks : hpc # "certificates" => cresults[i][1] \in SeqToSet(certificates)
        /\ (hpc = "done" /\ ret.status = "returned" /\ builder = "simplified") =>
              ret.certificates = certificates

\* Both certificates were fetched, the task of the second serial returning first.
C28_Witness ==
    /\ BuildReturned
    /\ Len(certificates) = 2
    /\ completion_order = <<2, 1>>

\* C29: on the same backend data both builders agree on which certificates
\* are revoked, whether revocation_time is absent, 0 or a positive timestamp.
C29_Original ==
    (ExpiryDone /\ cresults # <<>> /\ cresults[1] # None) =>
        (cresults[1][1].is_revoked <=> certificates[1].revoked = "yes")

\* C30: both operands of && and || are evaluated: for every condition A,
\* malformed operand M and document, A || M, M || A and A && M evaluate to
\* False, whatever A evaluates to.
C30_Original ==
    evaluated # None =>
        \A A \in Conditions, M \in MalformedOperands :
            expression \in {A \o " || " \o M, M \o " || " \o A, A \o " && " \o M} =>
                evaluated[1].value[1] = FALSE
====
